---- MODULE Spec2Model ----
(***************************************************************************)
(* A model of the redline load engine (crate `bencher`): the confirmation  *)
(* tracker, the WebSocket worker, the rate manager and the per-iteration   *)
(* step of the bench runner with its completion tasks.                     *)
(*                                                                         *)
(* Four specifications share the module:                                   *)
(*   SpecTracker  Confirmations::track / observe / remove called freely    *)
(*   SpecWs       one WsWorker and the server at the other end of its      *)
(*                socket                                                   *)
(*   SpecRate     RateManager::tick against a clock                        *)
(*   Spec         BenchRunner::run: engine loop, completion tasks, drains  *)
(* Each specification leaves the variables of the others unchanged.        *)
(***************************************************************************)
EXTENDS Integers, Sequences, FiniteSets, Bags, TLC

(***************************************************************************)
(* Bounds of the model.                                                    *)
(***************************************************************************)
\* benchmark.iterations of the modelled run: request ids are 0..MaxIter-1
MaxIter == 2
\* number of calls made on the free-standing tracker
MaxCalls == 5
\* subscriptions submitted to the modelled socket: local ids 0..MaxSub-1
MaxSub == 2
\* remote subscription ids the server hands out: 1..MaxRemote
MaxRemote == 2
\* frames the worker reads from the modelled socket
MaxFrames == 4
\* benchmark.rate ranges over 1..MaxRate
MaxRate == 3
\* benchmark.concurrency ranges over 1..MaxConc
MaxConc == 2
\* seconds of clock time the rate manager is followed for
MaxSecs == 2
\* instructions and notifications on the modelled account
MaxOps == 3
\* config.parallelism ranges over 1..MaxPar
MaxPar == 2
\* benchmark.iterations of each engine thread of the orchestrator
MaxMainIter == 2
\* engines whose statistics are merged
MaxEngines == 3
\* calls of TransferManager::transfer
MaxTransfers == 4
\* milliseconds of clock time the transfer manager is followed for
MaxClock == 6
\* connections of a WebSocket pool (ws_connections_count)
MaxWs == 1
\* completion tasks in flight at once
MaxInflight == 2
\* capacity of a tracker's channel (mpsc::channel(1024) in the code)
MaxChan == 1
\* children of a mixed request builder
MaxChildren == 2
MaxBuilds == 3
\* connections of the HTTP pool (http_connections_count)
MaxHttp == 3
\* requests sent over one connection
MaxSends == 2
\* connections of the WebSocket pool whose round robin is followed
MaxWsPool == 3
\* calls of WebsocketPool::connection
MaxPoolCalls == 7
\* blockhashes the validator goes through
MaxHash == 3
\* requests of the blockhash refresher
MaxRefresh == 3
\* calls of BlockHashProvider::hash
MaxReads == 2
\* the reservoir size R (DEFAULT_RESERVOIR_SIZE, 10 000 in the code)
MaxReservoir == 2
\* values pushed to one stream, requests tracked by one tracker
MaxPush == 4
MaxOrder == 2

VARIABLES
    \* ---- SpecTracker
    trk,        \* a Confirmations<V>
    call,       \* the call just made on it (none at start)
    seen,       \* ids observed since they were last tracked
    ncalls,     \* calls made so far
    dups        \* observe calls made on an id already observed

trkVars == <<trk, call, seen, ncalls, dups>>

VARIABLES
    \* ---- SpecWs: the WsWorker of one socket
    wsSubscriptions,  \* WsWorker.subscriptions: remote id -> Subscription
    wsPending,        \* WsWorker.pending: local id -> Subscription
    wsBuffered,       \* WsWorker.buffered: remote id -> payload
    wsInbox,          \* the mpsc::channel(1) of Subscriptions to the worker
    wsAlive,          \* the worker's run loop has not ended
    wsOneshot,        \* Subscription.oneshot of the pool this socket is of
    \* ---- its environment
    srvReqs,          \* local ids whose subscribe request reached the server
    srvAcked,         \* local ids the server has acknowledged
    nframes,          \* frames read so far (the next frame's number)
    nsubs,            \* subscriptions submitted so far (the next local id)
    rxOpen,           \* the Receiver of Subscription.tx has not been dropped
    \* ---- history
    wsOut,            \* what the worker sent on Subscription.tx, in order
    acked,            \* <<local id, remote id>> bound by an ack
    early,            \* notifications read while their remote id was unbound
    owed              \* those of early whose remote id was bound since

wsVars == <<wsSubscriptions, wsPending, wsBuffered, wsInbox, wsAlive, wsOneshot,
            srvReqs, srvAcked, nframes, nsubs, rxOpen,
            wsOut, acked, early, owed>>

VARIABLES
    \* ---- SpecRate: the RateManager
    rate,         \* RateManager.rate
    concurrency,  \* the capacity RateManager.permits was created with
    permits,      \* permits available in the semaphore RateManager.permits
    count,        \* RateManager.count
    epoch,        \* RateManager.epoch, an Instant, in microseconds
    rstats,       \* what was pushed to RateManager.stats, in order
    rpc,          \* "idle": no tick in progress; "acquire": tick has paced and
                  \* awaits acquire_owned
    \* ---- its environment
    now,          \* the clock, in microseconds
    \* ---- history
    lastReturn,   \* when tick last returned a permit (-1: never)
    minGap,       \* the smallest time between two consecutive returns (-1: none)
    window,       \* window[k]: permits returned in second k of the run
    backToBack,   \* every tick so far was called as soon as the last returned
    binding,      \* some tick had to wait for a permit
    underflowed   \* some tick computed rate - count with count > rate

rateClock == <<rate, count, epoch, rstats, rpc, now, lastReturn, minGap, window,
               backToBack, binding, underflowed>>

rateVars == <<rateClock, concurrency, permits>>

VARIABLES
    \* ---- Spec: the BenchRunner of one engine
    cfg,          \* config.confirmations: enforce_total_sync,
                  \* subscribe_to_signatures, subscribe_to_accounts
    epc,          \* where run is: "tick" (in step, awaiting rate_manager.tick),
                  \* "subscribe" (in subscribe_if_needed), "done" (returned)
    iter,         \* the loop variable i of run, the id of the step
    cur,          \* the request built by the step in progress
    account_confirmations,    \* BenchRunner.account_confirmations
    signature_confirmations,  \* BenchRunner.signature_confirmations
    delivery_confirmations,   \* BenchRunner.delivery_confirmations: name -> tracker
    tasks,        \* the completion task spawned by step(id), per id
    acctDrain,    \* the confirm_by_value task has not ended
    sigDrain,     \* the confirm_by_id task has not ended
    \* ---- its environment
    sigSubmitted, \* ids whose signature subscription was sent and has not
                  \* produced its notification
    acctWritten,  \* ids whose transaction wrote its account, the notification
                  \* of the write not yet delivered
    \* ---- history
    log,          \* <<id, level>> logged by the completion tasks
    timedOut,     \* <<kind, id>>: the task of id saw the timeout of that wait
    waited        \* a permit was dropped while tick had none to acquire

engVars == <<cfg, epc, iter, cur, account_confirmations, signature_confirmations,
             delivery_confirmations, tasks, acctDrain, sigDrain,
             sigSubmitted, acctWritten, log, timedOut, waited>>

VARIABLES
    \* ---- SpecCodec: one account of the program and its update notification
    acctData,     \* the account's data, a sequence of bytes
    acctLamports, \* its lamports
    lastId,       \* the id of the last SimpleByteSet executed on it (-1: none)
    wrote,        \* that instruction wrote the account
    extracted,    \* what the extractor gave for the last notification
    nops          \* instructions executed and notifications extracted

codecVars == <<acctData, acctLamports, lastId, wrote, extracted, nops>>

VARIABLES
    \* ---- SpecMain: the orchestrator (main.rs), its engine threads and the
    \*      progress bar thread
    mcfg,         \* config: parallelism, payers (u8), and the build profile
    shutdownFlag, \* static SHUTDOWN
    mpc,          \* where main is: "load", "spawn", "bar", "join", "write",
                  \* "exited" (returned Ok), "panicked"
    keypairs,     \* the keypairs loaded, by the number of their file
    engines,      \* per engine thread: [st, done, signers], st one of
                  \* "running", "finished" (returned its stats), "panicked"
    barDone,      \* the progress bar thread has ended
    barLog,       \* what it logged
    joined,       \* handles joined so far
    output,       \* the statistics written: the iterations they count, per
                  \* engine merged; <<>> when nothing was written
    mainLog       \* what main logged after writing

mainVars == <<mcfg, shutdownFlag, mpc, keypairs, engines, barDone, barLog, joined,
              output, mainLog>>

VARIABLES
    \* ---- SpecMerge: BenchStatistics::merge over the engines' statistics
    mstats,       \* the Vec<BenchStatistics> handed to merge, in join order
    mbuild,       \* the build profile: "debug" (overflow checks) or "release"
    mmerged,      \* <<the merged BenchStatistics>>, <<>> before merge returns
    mpanicked     \* merge panicked on an arithmetic overflow

mergeVars == <<mstats, mbuild, mmerged, mpanicked>>

VARIABLES
    \* ---- SpecTransfer: the TransferManager of one engine
    tfrequency,   \* TransferManager.frequency, in milliseconds
    tlast,        \* TransferManager.last
    tpdas,        \* TransferManager.pdas
    tnow,         \* the clock, in milliseconds
    tfires,       \* the times at which a transfer was sent, in order
    tcalls,       \* calls of transfer made
    ttargets      \* the PDAs the transfers were sent to, in order

transferVars == <<tfrequency, tlast, tpdas, tnow, tfires, tcalls, ttargets>>

VARIABLES
    \* ---- SpecShutdown: the shutdown handle of one engine and its listeners
    sdRun,        \* BenchRunner::run: "running" or "returned"
    sdTasks,      \* completion tasks awaiting their HTTP response
    sdStrong,     \* strong count of the Rc<ShutDownSender>
    sdSent,       \* ShutDownSender was dropped: () sent, the channel closed
    sdRefresher,  \* the blockhash refresher: "select", "request", "ended"
    sdWorkers,    \* per WsWorker: "select", "send" (in handle_frame, awaiting
                  \* sub.tx.send), "ended"
    sdDrains,     \* per tracker kind, its drain task: "select", "ended"
    sdChan,       \* per tracker kind, the values queued in its mpsc channel
    sdHandles,    \* per tracker, the strong count of its Rc
    sdFinal       \* BenchResults::stats: "no" (not called), "ok", "panic"

shutdownVars == <<sdRun, sdTasks, sdStrong, sdSent, sdRefresher, sdWorkers,
                  sdDrains, sdChan, sdHandles, sdFinal>>

VARIABLES
    \* ---- SpecRequests: the request builder of one engine
    rqPreflight,  \* the configured preflight_check
    rqProviders,  \* MixedRequestBuilder.providers: the modes of its children
    rqLast,       \* MixedRequestBuilder.last_index (0: nothing built yet)
    rqRequest,    \* the request the last build returned
    rqAccounts,   \* what accounts() returned, <<"none">> before it is called
    rqName,       \* MixedRequestBuilder.last_name
    rqChildren,   \* the state each child builder keeps
    rqBuilds,     \* the ids handed to build so far
    rqSigBuilt    \* the signature of the request last built, 0 if it has none

requestVars == <<rqPreflight, rqProviders, rqLast, rqRequest, rqAccounts,
                 rqName, rqChildren, rqBuilds, rqSigBuilt>>

VARIABLES
    \* ---- SpecHttp: the ConnectionPool of one engine
    hpCount,      \* http_connections_count
    hpReady,      \* ConnectionPool.ready, front first
    hpBusy,       \* ConnectionPool.busy, front first
    hpGuard,      \* <<the Connection of the live ConnectionGuard>>, <<>> if none
    hpSent,       \* per Connection, the requests sent over it
    hpPanicked,   \* connection() panicked
    hpInflight,   \* per Connection, the requests sent whose response is awaited
    hpPermits,    \* permits the semaphore of the rate manager has free
    hpUsed        \* the live guard has sent its request

httpVars == <<hpCount, hpReady, hpBusy, hpGuard, hpSent, hpPanicked,
              hpInflight, hpPermits, hpUsed>>

VARIABLES
    \* ---- SpecWsPool: one WebsocketPool
    wpCount,      \* connections.len(), ws_connections_count
    wpNext,       \* WebsocketPool.next
    wpReturned,   \* the index of the connection each call returned, in order
    wpAlive,      \* the connections whose WsWorker has not ended
    wpPanicked    \* connection() panicked

wsPoolVars == <<wpCount, wpNext, wpReturned, wpAlive, wpPanicked>>

VARIABLES
    \* ---- SpecBlockhash: the BlockHashProvider of one engine
    bhStored,     \* the Hash in BlockHashProvider.hash
    bhPc,         \* the refresher: "select", "request" (awaiting its
                  \* response), "ended"
    bhOutcome,    \* how the last request of the refresher ended: "none", "ok",
                  \* "err"
    bhRequests,   \* getLatestBlockhash requests sent so far
    bhRead,       \* what the last call of hash() returned (0: no call yet)
    bhReads,      \* calls of hash() so far
    \* ---- its environment
    bhChain,      \* the latest blockhash of the validator
    \* ---- history
    bhLastGood    \* the hash the most recent successful fetch returned

blockhashVars == <<bhStored, bhPc, bhOutcome, bhRequests, bhRead, bhReads, bhChain,
                   bhLastGood>>

VARIABLES
    \* ---- SpecReservoir: one StreamingStats and one Confirmations<V>
    rsCount,      \* StreamingStats.count
    rsReservoir,  \* StreamingStats.reservoir
    rsTracker,    \* a Confirmations<V>
    rsNextId      \* the id of the next request tracked

reservoirVars == <<rsCount, rsReservoir, rsTracker, rsNextId>>

VARIABLES
    \* ---- SpecUrl: one endpoint Url and the addresses derived from it
    urlHost,      \* the host of the Uri
    urlPort,      \* its explicit port, None if it has none
    urlBuild,     \* the build profile: "debug" (overflow checks) or "release"
    urlHttp,      \* what address(false) returned, <<>> before it is called
    urlWs         \* what address(true) returned, <<>> before it is called

urlVars == <<urlHost, urlPort, urlBuild, urlHttp, urlWs>>

VARIABLES
    \* ---- SpecOrder: the step of a transaction against the tasks it feeds
    odCfg,        \* confirmations.subscribe_to_signatures / _accounts
    odPc,         \* the engine: "step", "sending" (suspended at line 277), "done"
    odId,         \* the id of the iteration the engine is in, or is to start
    odInbox,      \* the channel of the signature worker: ids of Subscriptions
    odHttp,       \* per id: "none", "queued", "written", "executed"
    odSubscribed, \* ids whose signature subscription the server has received
    odNotes,      \* notifications the server has emitted: <<kind, id>>
    odPending,    \* <<kind, id>> pending in the tracker of that kind
    odObserved,   \* <<kind, id>> observed by the drain while pending
    odDiscarded   \* <<kind, id>> observed by the drain while not pending

orderVars == <<odCfg, odPc, odId, odInbox, odHttp, odSubscribed, odNotes,
               odPending, odObserved, odDiscarded>>

VARIABLES
    \* ---- SpecBuffer: one WsWorker and a server that reuses remote ids
    bfOneshot,       \* Subscription.oneshot of the pool this socket is of
    bfSubscriptions, \* WsWorker.subscriptions: remote id -> Subscription
    bfPending,       \* WsWorker.pending: local id -> Subscription
    bfBuffered,      \* WsWorker.buffered: remote id -> payload
    bfOut,           \* what the worker sent on Subscription.tx, in order
    bfFrames,        \* frames read so far (the next frame's number)
    bfSubs,          \* subscriptions written so far (the next local id)
    bfAssigned,      \* the server: local id -> the remote id it gave the request
    bfAcked,         \* the server: local ids whose ack it has sent
    bfOwner,         \* frame number -> the local id the server notified
    bfEnded          \* the server: local ids whose subscription it has ended

bufferVars == <<bfOneshot, bfSubscriptions, bfPending, bfBuffered, bfOut,
                bfFrames, bfSubs, bfAssigned, bfAcked, bfOwner, bfEnded>>

\* The groups added after the transfer manager's.
lateVars == <<shutdownVars, requestVars, httpVars, wsPoolVars, blockhashVars, reservoirVars, urlVars, orderVars, bufferVars>>

\* The groups added after the engine's.
restVars == <<codecVars, mainVars, mergeVars, transferVars, lateVars>>

vars == <<trkVars, wsVars, rateVars, engVars, restVars>>

\* What the actions of one specification leave alone: the other groups.
TrkOthers == <<wsVars, rateVars, engVars, restVars>>

WsOthers == <<trkVars, rateVars, engVars, restVars>>

RateOthers == <<trkVars, wsVars, engVars, restVars>>

EngOthers == <<trkVars, wsVars, rateClock, concurrency, restVars>>

CoreVars == <<trkVars, wsVars, rateVars, engVars>>

CodecOthers == <<CoreVars, mainVars, mergeVars, transferVars, lateVars>>

MainOthers == <<CoreVars, codecVars, mergeVars, transferVars, lateVars>>

MergeOthers == <<CoreVars, codecVars, mainVars, transferVars, lateVars>>

TransferOthers == <<CoreVars, codecVars, mainVars, mergeVars, lateVars>>

EarlyVars == <<CoreVars, codecVars, mainVars, mergeVars, transferVars>>

ShutdownOthers == <<EarlyVars, requestVars, httpVars, wsPoolVars, blockhashVars, reservoirVars, urlVars, orderVars, bufferVars>>

RequestOthers == <<EarlyVars, shutdownVars, httpVars, wsPoolVars, blockhashVars, reservoirVars, urlVars, orderVars, bufferVars>>

HttpOthers == <<EarlyVars, shutdownVars, requestVars, wsPoolVars, blockhashVars, reservoirVars, urlVars, orderVars, bufferVars>>

WsPoolOthers == <<EarlyVars, shutdownVars, requestVars, httpVars, blockhashVars, reservoirVars, urlVars, orderVars, bufferVars>>

BlockhashOthers == <<EarlyVars, shutdownVars, requestVars, httpVars, wsPoolVars, reservoirVars, urlVars, orderVars, bufferVars>>

ReservoirOthers == <<EarlyVars, shutdownVars, requestVars, httpVars, wsPoolVars, blockhashVars, urlVars, orderVars, bufferVars>>

UrlOthers == <<EarlyVars, shutdownVars, requestVars, httpVars, wsPoolVars, blockhashVars, reservoirVars, orderVars, bufferVars>>

OrderOthers == <<EarlyVars, shutdownVars, requestVars, httpVars, wsPoolVars, blockhashVars, reservoirVars, urlVars, bufferVars>>

BufferOthers == <<EarlyVars, shutdownVars, requestVars, httpVars, wsPoolVars, blockhashVars, reservoirVars, urlVars, orderVars>>

(***************************************************************************)
(* Confirmations<V> (confirmation.rs).                                     *)
(*                                                                         *)
(* pending       the HashMap<u64, PendingConfirmation<V>>: a function from *)
(*               the pending ids to [tx |-> whether a oneshot sender is    *)
(*               attached]                                                 *)
(* observations  the Vec of samples. The latency value is not modelled;    *)
(*               each sample is written as the id it was taken for, and    *)
(*               the Vec, which is only ever pushed to and then handed to  *)
(*               the statistics, as the bag of its elements                *)
(* sent          what observe has sent through the attached oneshot        *)
(*               senders, each a channel of its own: a bag of <<id, v>>    *)
(***************************************************************************)
Ids == 0..(MaxIter - 1)

MapRemove(m, k) == [x \in (DOMAIN m) \ {k} |-> m[x]]

MapInsert(m, k, v) == [x \in (DOMAIN m) \cup {k} |-> IF x = k THEN v ELSE m[x]]

Push(b, x) == b (+) SetToBag({x})

NewConfirmations == [pending |-> <<>>, observations |-> EmptyBag, sent |-> EmptyBag]

Track(c, id, tx) == [c EXCEPT !.pending = MapInsert(@, id, [tx |-> tx])]

ObserveKeepsPending(c, id, v) ==
    IF id \notin DOMAIN c.pending
    THEN c
    ELSE [c EXCEPT !.observations = Push(@, id),
                   !.sent = IF c.pending[id].tx THEN Push(@, <<id, v>>) ELSE @]

Observe(c, id, v) ==
    IF id \notin DOMAIN c.pending
    THEN c
    ELSE [c EXCEPT !.pending = MapRemove(@, id),
                   !.observations = Push(@, id),
                   !.sent = IF c.pending[id].tx THEN Push(@, <<id, v>>) ELSE @]

Remove(c, id) == [c EXCEPT !.pending = MapRemove(@, id)]

Samples(c, id) == CopiesIn(id, c.observations)

Sent(c, id) == \E e \in BagToSet(c.sent) : e[1] = id

(***************************************************************************)
(* WsWorker (websocket.rs) and the server at the other end of its socket.  *)
(*                                                                         *)
(* A Subscription is [id, oneshot]; its tx is the Sender of the tracker's  *)
(* confirmation channel, its payload is what handle_subscription writes.   *)
(* A frame is [kind, id, result, sub, ok, seq]:                            *)
(*   kind = "ack"    a text frame that parses as Confirmation {result, id} *)
(*   kind = "notif"  a text frame with params.subscription = sub; ok says  *)
(*                   whether params.result is there and the extractor      *)
(*                   yields a value                                        *)
(*   kind = "other"  any frame handle_frame drops (not text, no params)    *)
(* seq numbers the frames in the order read; it stands for the payload, so *)
(* the value extracted from frame seq is seq.                              *)
(***************************************************************************)
Locals == 0..(MaxSub - 1)

Remotes == 1..MaxRemote

AckFrame(id, result, seq) ==
    [kind |-> "ack", id |-> id, result |-> result, sub |-> 0, ok |-> FALSE, seq |-> seq]

NotifFrame(sub, ok, seq) ==
    [kind |-> "notif", id |-> 0, result |-> 0, sub |-> sub, ok |-> ok, seq |-> seq]

OtherFrame(seq) ==
    [kind |-> "other", id |-> 0, result |-> 0, sub |-> 0, ok |-> FALSE, seq |-> seq]

\* The worker's maps and what it has sent, as handle_frame passes them on.
WsState(subs, pend, buf, out) ==
    [subscriptions |-> subs, pending |-> pend, buffered |-> buf, out |-> out]

\* A delivery on Subscription.tx: (sub.id, extracted), with the frame and the
\* remote id it came from.
Delivery(sub, payload) ==
    [id |-> sub.id, v |-> payload.seq, seq |-> payload.seq, remote |-> payload.sub]

NotifyUnbound(w, payload, rxOk) ==
    IF ~payload.ok
    THEN w
    ELSE IF payload.sub \notin DOMAIN w.subscriptions
    THEN [w EXCEPT !.out = Append(@, [id |-> payload.sub, v |-> payload.seq,
                                      seq |-> payload.seq, remote |-> payload.sub])]
    ELSE LET sub == w.subscriptions[payload.sub] IN
         [w EXCEPT !.out = IF rxOk THEN Append(@, Delivery(sub, payload)) ELSE @,
                   !.subscriptions = IF ~rxOk \/ sub.oneshot
                                     THEN MapRemove(@, payload.sub)
                                     ELSE @]

\* A variant of Unsubscribes that keeps a one-shot subscription whose send
\* succeeded.
UnsubscribesOnFailureOnly(sub, rxOk) == ~rxOk

\* handle_frame, the condition of lines 150-151:
\* `sub.tx.send((sub.id, extracted)).await.is_err() || sub.oneshot`.
Unsubscribes(sub, rxOk) == ~rxOk \/ sub.oneshot

\* handle_frame from "Process notification message" on (lines 132-152).
Notify(w, payload, rxOk) ==
    IF ~payload.ok
    THEN w
    ELSE IF payload.sub \notin DOMAIN w.subscriptions
    THEN [w EXCEPT !.buffered = MapInsert(@, payload.sub, payload)]
    ELSE LET sub == w.subscriptions[payload.sub] IN
         [w EXCEPT !.out = IF rxOk THEN Append(@, Delivery(sub, payload)) ELSE @,
                   !.subscriptions = IF Unsubscribes(sub, rxOk)
                                     THEN MapRemove(@, payload.sub)
                                     ELSE @]

\* handle_frame on a subscription confirmation (lines 116-130).
Confirm(w, frame, rxOk) ==
    IF frame.id \notin DOMAIN w.pending
    THEN w
    ELSE LET bound == [w EXCEPT !.pending = MapRemove(@, frame.id),
                                !.subscriptions =
                                    MapInsert(@, frame.result, w.pending[frame.id])]
         IN  IF frame.result \in DOMAIN w.buffered
             THEN Notify([bound EXCEPT !.buffered = MapRemove(@, frame.result)],
                         w.buffered[frame.result], rxOk)
             ELSE bound

HandleFrameOf(w, frame, rxOk) ==
    CASE frame.kind = "ack" -> Confirm(w, frame, rxOk)
      [] frame.kind = "notif" -> Notify(w, frame, rxOk)
      [] OTHER -> w

WsInit ==
    /\ wsSubscriptions = <<>>
    /\ wsPending = <<>>
    /\ wsBuffered = <<>>
    /\ wsInbox = <<>>
    /\ wsAlive = TRUE
    /\ wsOneshot \in BOOLEAN
    /\ srvReqs = {}
    /\ srvAcked = {}
    /\ nframes = 0
    /\ nsubs = 0
    /\ rxOpen = TRUE
    /\ wsOut = <<>>
    /\ acked = {}
    /\ early = {}
    /\ owed = {}

WsIdle ==
    /\ wsSubscriptions = <<>>
    /\ wsPending = <<>>
    /\ wsBuffered = <<>>
    /\ wsInbox = <<>>
    /\ wsAlive = FALSE
    /\ wsOneshot = FALSE
    /\ srvReqs = {}
    /\ srvAcked = {}
    /\ nframes = 0
    /\ nsubs = 0
    /\ rxOpen = FALSE
    /\ wsOut = <<>>
    /\ acked = {}
    /\ early = {}
    /\ owed = {}

\* The engine sends a Subscription on the Sender returned by
\* WebsocketPool::connection (runner.rs:153, 277); the channel holds one.
WsSubmit ==
    /\ nsubs < MaxSub
    /\ Len(wsInbox) < 1
    /\ wsInbox' = Append(wsInbox, [id |-> nsubs, oneshot |-> wsOneshot])
    /\ nsubs' = nsubs + 1
    /\ UNCHANGED <<wsSubscriptions, wsPending, wsBuffered, wsAlive, wsOneshot,
                   srvReqs, srvAcked, nframes, rxOpen,
                   wsOut, acked, early, owed>>
    /\ UNCHANGED WsOthers

\* run: `sub = self.rx.recv()` with Some(sub), then handle_subscription.
WsHandleSubscription ==
    /\ wsAlive
    /\ wsInbox # <<>>
    /\ LET sub == Head(wsInbox) IN
        /\ srvReqs' = srvReqs \cup {sub.id}
        /\ wsPending' = MapInsert(wsPending, sub.id, sub)
    /\ wsInbox' = Tail(wsInbox)
    /\ UNCHANGED <<wsSubscriptions, wsBuffered, wsAlive, wsOneshot,
                   srvAcked, nframes, nsubs, rxOpen,
                   wsOut, acked, early, owed>>
    /\ UNCHANGED WsOthers

\* run: the shutdown broadcast makes recv return None; handle_subscription
\* writes the close frame and the loop breaks.
WsShutdown ==
    /\ wsAlive
    /\ wsAlive' = FALSE
    /\ UNCHANGED <<wsSubscriptions, wsPending, wsBuffered, wsInbox, wsOneshot,
                   srvReqs, srvAcked, nframes, nsubs, rxOpen,
                   wsOut, acked, early, owed>>
    /\ UNCHANGED WsOthers

\* run: `Ok(frame) = self.ws.read_frame()`, then handle_frame(frame). The
\* history variables record what the frame was and what became of it.
WsRead(frame) ==
    /\ wsAlive
    /\ nframes < MaxFrames
    /\ LET w == WsState(wsSubscriptions, wsPending, wsBuffered, wsOut)
           w2 == HandleFrameOf(w, frame, rxOpen)
           binds == frame.kind = "ack" /\ frame.id \in DOMAIN wsPending
           isEarly == /\ frame.kind = "notif"
                      /\ frame.ok
                      /\ frame.sub \notin DOMAIN wsSubscriptions
       IN
        /\ wsSubscriptions' = w2.subscriptions
        /\ wsPending' = w2.pending
        /\ wsBuffered' = w2.buffered
        /\ wsOut' = w2.out
        /\ acked' = IF binds THEN acked \cup {<<frame.id, frame.result>>} ELSE acked
        /\ early' = IF isEarly
                    THEN early \cup {[seq |-> frame.seq, remote |-> frame.sub]}
                    ELSE early
        /\ owed' = IF binds
                   THEN owed \cup {e.seq : e \in {x \in early : x.remote = frame.result}}
                   ELSE owed
    /\ nframes' = nframes + 1
    /\ UNCHANGED <<wsInbox, wsAlive, wsOneshot, srvReqs, nsubs, rxOpen>>

\* The frame read is the server's acknowledgement of a subscribe request it
\* has received, sent once, with a remote id of the server's choice.
WsReadAck ==
    \E id \in srvReqs \ srvAcked, result \in Remotes :
        /\ WsRead(AckFrame(id, result, nframes))
        /\ srvAcked' = srvAcked \cup {id}
        /\ UNCHANGED WsOthers

\* The frame read is a notification, under any remote id: the server may send
\* it before or after the ack that tells the client that id.
WsReadNotification ==
    \E sub \in Remotes, ok \in BOOLEAN :
        /\ WsRead(NotifFrame(sub, ok, nframes))
        /\ UNCHANGED srvAcked
        /\ UNCHANGED WsOthers

\* The frame read is neither (a ping, a binary frame, other JSON).
WsReadOther ==
    /\ WsRead(OtherFrame(nframes))
    /\ UNCHANGED srvAcked
    /\ UNCHANGED WsOthers

\* The drain task of the tracker ends (confirmation.rs:74-76, 92-94) and drops
\* the Receiver: sends on Subscription.tx fail from now on.
WsRxDropped ==
    /\ rxOpen
    /\ rxOpen' = FALSE
    /\ UNCHANGED <<wsSubscriptions, wsPending, wsBuffered, wsInbox, wsAlive, wsOneshot,
                   srvReqs, srvAcked, nframes, nsubs, wsOut, acked, early, owed>>
    /\ UNCHANGED WsOthers

WsNext ==
    \/ WsSubmit
    \/ WsHandleSubscription
    \/ WsShutdown
    \/ WsReadAck
    \/ WsReadNotification
    \/ WsReadOther
    \/ WsRxDropped

DeliveredSeqs == {wsOut[k].seq : k \in DOMAIN wsOut}

\* C2: every value the worker delivers comes from a notification whose remote
\* id was acknowledged before, for a local id pending on this socket.
C2_NoGhostConfirmations ==
    \A k \in DOMAIN wsOut : \E a \in acked :
        /\ a[2] = wsOut[k].remote
        /\ a[1] \in srvReqs

\* C2 witness: a value was delivered although a notification for a remote id
\* that was never acknowledged had been read too.
C2_Witness ==
    /\ wsOut # <<>>
    /\ \E e \in early : \A a \in acked : a[2] # e.remote

\* C3: every notification read before the ack of its remote id is delivered
\* once that ack has been handled (the tracker's receiver being open).
C3_EarlyNotificationsDelivered ==
    rxOpen => owed \subseteq DeliveredSeqs

\* The notifications read so far whose payload passed the extractor, by remote
\* id and position in the stream: the ones handed to the tracker and the ones
\* that found no subscription under their remote id (line 145).
NotificationsRead ==
    early \cup {[seq |-> wsOut[k].seq, remote |-> wsOut[k].remote] : k \in DOMAIN wsOut}

\* The remote ids the server gave to exactly one subscription: every
\* notification carrying such an id belongs to that subscription.
OwnRemotes == {r \in Remotes : Cardinality({a \in acked : a[2] = r}) = 1}

\* C20: of the notifications the server sends for one one-shot subscription
\* only the first reaches the tracker: a subscription receives at most one
\* value, and that value is the earliest notification of its remote id.
C20_SecondNotificationDropped ==
    wsOneshot =>
        /\ \A j, k \in DOMAIN wsOut : wsOut[j].id = wsOut[k].id => j = k
        /\ \A k \in DOMAIN wsOut :
               wsOut[k].remote \in OwnRemotes =>
                   \A n \in NotificationsRead :
                       n.remote = wsOut[k].remote => n.seq >= wsOut[k].seq

\* C30: the values reach the tracker in the order in which their
\* notifications were read from the socket, the ones buffered before their ack
\* included.
C30_DeliveredInOrderReceived ==
    \A j, k \in DOMAIN wsOut : j < k => wsOut[j].seq < wsOut[k].seq

\* Claim C31: a one-shot subscription leaves the active map with the first
\* notification delivered for it; a multi-shot subscription stays in the map,
\* unchanged, through every notification handled while its channel is open,
\* and each successful notification read for it while the worker runs is
\* delivered under its local id.
C31_OneshotRemovedMultishotStays ==
    [][ /\ Len(wsOut') > Len(wsOut) =>
            LET d == wsOut'[Len(wsOut')] IN
                IF wsOneshot
                THEN d.remote \notin DOMAIN wsSubscriptions'
                ELSE /\ d.remote \in DOMAIN wsSubscriptions'
                     /\ wsSubscriptions'[d.remote].id = d.id
        /\ (~wsOneshot /\ rxOpen /\ wsPending' = wsPending) =>
            \A r \in DOMAIN wsSubscriptions :
                /\ r \in DOMAIN wsSubscriptions'
                /\ wsSubscriptions'[r] = wsSubscriptions[r]
        /\ \A r \in DOMAIN wsSubscriptions :
            (~wsOneshot /\ rxOpen /\ WsRead(NotifFrame(r, TRUE, nframes))) =>
                wsOut' = Append(wsOut, Delivery(wsSubscriptions[r],
                                                NotifFrame(r, TRUE, nframes)))
      ]_vars

\* A multi-shot subscription has had two notifications delivered and is
\* still active.
C31_Witness ==
    /\ ~wsOneshot
    /\ \E i, j \in DOMAIN wsOut :
        /\ i < j
        /\ wsOut[i].remote = wsOut[j].remote
        /\ wsOut[i].id = wsOut[j].id
        /\ wsOut[j].remote \in DOMAIN wsSubscriptions
        /\ wsSubscriptions[wsOut[j].remote].id = wsOut[j].id

(***************************************************************************)
(* RateManager (rate.rs). Time is in microseconds.                         *)
(***************************************************************************)
\* const ONESEC: Duration = Duration::from_secs(1)
ONESEC == 1000000

\* const ONEMS: Duration = Duration::from_millis(1)
ONEMS == 1000

\* `self.rate - self.count` on u32. When count > rate a release build wraps to
\* 2^32 - (count - rate), a debug build panics; `underflowed` records that the
\* case arose. The wrapped value exceeds every integer TLC represents: it is
\* written as the largest one, which like it exceeds 1000, the only number
\* it is ever divided into.
WrappedU32 == 2147483647

SubU32(a, b) == IF a >= b THEN a - b ELSE WrappedU32

\* Duration::as_millis: whole milliseconds, the rest cut off
AsMillis(d) == d \div ONEMS

\* Duration::from_millis
FromMillis(ms) == ms * ONEMS

SaturatingSub(a, b) == IF a >= b THEN a - b ELSE 0

Max(a, b) == IF a >= b THEN a ELSE b

\* tokio Semaphore: acquire_owned completes only while a permit is available
SemAvailableAlways(p) == TRUE

SemAvailable(p) == p > 0

SemAcquire(p) == p - 1

\* dropping an OwnedSemaphorePermit
SemRelease(p) == p + 1

\* A variant of TickCount whose reset starts a new second and keeps the
\* count.
TickCountKept(c, ep, at) ==
    LET elapsed == at - ep
        c1 == c + 1
    IN  IF elapsed >= ONESEC
        THEN [count |-> c1, epoch |-> at, pushed |-> <<c1>>]
        ELSE [count |-> c1, epoch |-> ep, pushed |-> <<>>]

\* tick, lines 60-65: the count and the epoch after the call made at `at`.
\* [count, epoch, pushed] where pushed is <<c>> when c went to stats.
TickCount(c, ep, at) ==
    LET elapsed == at - ep
        c1 == c + 1
    IN  IF elapsed >= ONESEC
        THEN [count |-> 0, epoch |-> at, pushed |-> <<c1>>]
        ELSE [count |-> c1, epoch |-> ep, pushed |-> <<>>]

\* tick, lines 66-74: how long the call made `elapsed` after the epoch started
\* sleeps, `c` being the count after lines 61-65.
TickSleep(r, c, elapsed) ==
    LET remaining == Max(SubU32(r, c), 1)
        left == SaturatingSub(1000, AsMillis(elapsed))
        sleep_dur == FromMillis(left \div remaining)
    IN  IF sleep_dur >= ONEMS
        THEN sleep_dur
        ELSE IF c >= r
        THEN FromMillis(left)
        ELSE 0

\* times the caller lets pass between two calls of tick, or that pass while
\* tick waits for a permit
Delays == {ONESEC \div 4, ONESEC}

MaxTime == MaxSecs * ONESEC

Windows == 0..MaxSecs

RateInit ==
    /\ rate \in 1..MaxRate
    /\ concurrency \in 1..MaxConc
    /\ permits = concurrency
    /\ count = 0
    /\ epoch = 0
    /\ rstats = <<>>
    /\ rpc = "idle"
    /\ now = 0
    /\ lastReturn = -1
    /\ minGap = -1
    /\ window = [k \in Windows |-> 0]
    /\ backToBack = TRUE
    /\ binding = FALSE
    /\ underflowed = FALSE

RateIdle ==
    /\ rate = 1
    /\ concurrency = 1
    /\ permits = 1
    /\ count = 0
    /\ epoch = 0
    /\ rstats = <<>>
    /\ rpc = "idle"
    /\ now = 0
    /\ lastReturn = -1
    /\ minGap = -1
    /\ window = [k \in Windows |-> 0]
    /\ backToBack = TRUE
    /\ binding = FALSE
    /\ underflowed = FALSE

\* tick up to its last line: count, push and reset, then sleep.
RateTickPace ==
    /\ rpc = "idle"
    /\ now < MaxTime
    /\ LET elapsed == now - epoch
           t == TickCount(count, epoch, now)
       IN
        /\ count' = t.count
        /\ epoch' = t.epoch
        /\ rstats' = rstats \o t.pushed
        /\ now' = now + TickSleep(rate, t.count, elapsed)
        /\ underflowed' = (underflowed \/ t.count > rate)
    /\ rpc' = "acquire"
    /\ UNCHANGED <<rate, concurrency, permits, lastReturn, minGap, window,
                   backToBack, binding>>
    /\ UNCHANGED RateOthers

\* tick's last line: acquire_owned completes and tick returns the permit.
RateTickAcquire ==
    /\ rpc = "acquire"
    /\ SemAvailable(permits)
    /\ permits' = SemAcquire(permits)
    /\ rpc' = "idle"
    /\ lastReturn' = now
    /\ minGap' = IF lastReturn < 0 THEN minGap
                 ELSE IF minGap < 0 \/ now - lastReturn < minGap
                 THEN now - lastReturn
                 ELSE minGap
    /\ window' = [window EXCEPT ![now \div ONESEC] = @ + 1]
    /\ UNCHANGED <<rate, concurrency, count, epoch, rstats, now, backToBack, binding,
                   underflowed>>
    /\ UNCHANGED RateOthers

\* an operation ends and drops its permit
RateDropPermit ==
    /\ permits < concurrency
    /\ permits' = SemRelease(permits)
    /\ binding' = (binding \/ (rpc = "acquire" /\ ~SemAvailable(permits)))
    /\ UNCHANGED <<rate, concurrency, count, epoch, rstats, rpc, now,
                   lastReturn, minGap, window, backToBack, underflowed>>
    /\ UNCHANGED RateOthers

\* time passes between two calls of tick
RateCallerDelay ==
    /\ rpc = "idle"
    /\ \E d \in Delays :
        /\ now + d <= MaxTime
        /\ now' = now + d
    /\ backToBack' = FALSE
    /\ UNCHANGED <<rate, concurrency, permits, count, epoch, rstats, rpc,
                   lastReturn, minGap, window, binding, underflowed>>
    /\ UNCHANGED RateOthers

\* time passes while tick waits for a permit
RateBlocked ==
    /\ rpc = "acquire"
    /\ ~SemAvailable(permits)
    /\ \E d \in Delays :
        /\ now + d <= MaxTime
        /\ now' = now + d
    /\ binding' = TRUE
    /\ UNCHANGED <<rate, concurrency, permits, count, epoch, rstats, rpc,
                   lastReturn, minGap, window, backToBack, underflowed>>
    /\ UNCHANGED RateOthers

RateNext ==
    \/ RateTickPace
    \/ RateTickAcquire
    \/ RateDropPermit
    \/ RateCallerDelay
    \/ RateBlocked

\* C6: in steady state (every second of the run after the first), with tick
\* called back-to-back and concurrency not binding, tick returns exactly
\* `rate` permits per second.
C6_ExactlyRatePerSecond ==
    (backToBack /\ ~binding) =>
        \A k \in Windows : (k >= 1 /\ now >= (k + 1) * ONESEC /\ rpc = "idle")
                              => window[k] = rate

\* C7: with rate = 1 and concurrency not binding, two consecutive permits are
\* at least one second apart.
C7_RateOneInterArrival ==
    (rate = 1 /\ ~binding /\ minGap >= 0) => minGap >= ONESEC

\* C29: when tick finds the epoch over, the value it pushes is the count of
\* the ticks of that epoch, the current call left out, and the current call is
\* the first of the new epoch: count is 1 after it.
C29_PushedCountExcludesCurrentTick ==
    [][Len(rstats') = Len(rstats) + 1
        => (rstats'[Len(rstats')] = count /\ count' = 1)]_vars

\* Claim C37: whenever tick evaluates `self.rate - self.count`, count is at
\* most rate: the subtraction on u32 never underflows.
C37_RateMinusCountNeverUnderflows ==
    /\ ~underflowed
    /\ count <= rate

\* tick has evaluated the subtraction with count equal to rate.
C37_Witness ==
    /\ rpc = "acquire"
    /\ count = rate

(***************************************************************************)
(* BenchRunner (runner.rs): run, step, subscribe_if_needed and the         *)
(* completion task of each step; the two drain tasks (confirmation.rs).    *)
(*                                                                         *)
(* The pacing of tick is that of SpecRate; here tick is the acquisition of *)
(* its permit. The WebSocket path of a signature subscription is that of   *)
(* SpecWs; here the drain task receives what a worker delivered.           *)
(***************************************************************************)
\* RequestBuilder::name of the builder the request came from: a transaction
\* builder or a read-only RPC builder (the two children of a mixed mode).
NameOf(txn) == IF txn THEN "SimpleByteSet" ELSE "GetBalance"

NoRequest == [id |-> 0, txn |-> FALSE, name |-> ""]

NoTask ==
    [pc |-> "none", permit |-> FALSE, account_rx |-> FALSE, signature_rx |-> FALSE,
     name |-> "", outcome |-> "none"]

\* step, lines 242-244: whether the permit is dropped once the response has
\* been handled.
DropsPermitAfterHttpAlways(total_sync) == TRUE

DropsPermitAfterHttp(total_sync) == ~total_sync

\* A mode that records a delivery sample only for a request that succeeded.
ObserveDeliveryOnSuccess(c, id, outcome) == IF outcome = "ok" THEN Observe(c, id, TRUE) ELSE c

\* step, line 240: the delivery is observed whatever response.resolve gave.
ObserveDelivery(c, id, outcome) == Observe(c, id, TRUE)

\* The value of a oneshot receiver handed out by subscribe_with_sync: what
\* observe sent for id, if it did.
Delivered(c, id) == Sent(c, id)

\* The completion task from its first await that is still to come: the
\* account wait, the signature wait, or its end.
AfterHttp(t) ==
    IF t.account_rx THEN "acct" ELSE IF t.signature_rx THEN "sig" ELSE "done"

AfterAcct(t) == IF t.signature_rx THEN "sig" ELSE "done"

Spawned == {id \in Ids : tasks[id].pc # "none"}

\* ShutDownSender::drop: the last Rc<ShutDownSender> is gone once run has
\* returned (the runner's own handle) and every completion task has ended.
Stopped == epc = "done" /\ \A id \in Ids : tasks[id].pc = "done"

\* The run is over: main's rt.block_on(local) has seen every task end.
Finished == Stopped /\ ~acctDrain /\ ~sigDrain

\* permits held: by the step in progress and by the completion tasks
Held ==
    (IF epc = "subscribe" THEN 1 ELSE 0)
        + Cardinality({id \in Ids : tasks[id].permit})

EngInit ==
    /\ cfg \in [enforce_total_sync : BOOLEAN,
                subscribe_to_signatures : BOOLEAN,
                subscribe_to_accounts : BOOLEAN]
    /\ concurrency \in 1..MaxConc
    /\ permits = concurrency
    /\ epc = "tick"
    /\ iter = 0
    /\ cur = NoRequest
    /\ account_confirmations = NewConfirmations
    /\ signature_confirmations = NewConfirmations
    /\ delivery_confirmations = <<>>
    /\ tasks = [id \in Ids |-> NoTask]
    /\ acctDrain = TRUE
    /\ sigDrain = TRUE
    /\ sigSubmitted = {}
    /\ acctWritten = {}
    /\ log = {}
    /\ timedOut = {}
    /\ waited = FALSE

EngIdle ==
    /\ cfg = [enforce_total_sync |-> FALSE,
              subscribe_to_signatures |-> FALSE,
              subscribe_to_accounts |-> FALSE]
    /\ epc = "done"
    /\ iter = 0
    /\ cur = NoRequest
    /\ account_confirmations = NewConfirmations
    /\ signature_confirmations = NewConfirmations
    /\ delivery_confirmations = <<>>
    /\ tasks = [id \in Ids |-> NoTask]
    /\ acctDrain = FALSE
    /\ sigDrain = FALSE
    /\ sigSubmitted = {}
    /\ acctWritten = {}
    /\ log = {}
    /\ timedOut = {}
    /\ waited = FALSE

\* Dropping the permit of a task: the semaphore gets it back. `waited` records
\* that tick was waiting for it.
DropPermit ==
    /\ permits' = SemRelease(permits)
    /\ waited' = (waited \/ (epc = "tick" /\ iter < MaxIter /\ ~SemAvailable(permits)))

\* step, lines 205-222: tick returns the permit, the request is built and
\* sent. txn: the builder reports a signature (a transaction), or none (a
\* read-only RPC call).
EngStep(txn) ==
    /\ epc = "tick"
    /\ iter < MaxIter
    /\ SemAvailable(permits)
    /\ permits' = SemAcquire(permits)
    /\ cur' = [id |-> iter, txn |-> txn, name |-> NameOf(txn)]
    /\ delivery_confirmations' =
           IF NameOf(txn) \in DOMAIN delivery_confirmations
           THEN delivery_confirmations
           ELSE MapInsert(delivery_confirmations, NameOf(txn), NewConfirmations)
    /\ epc' = "subscribe"
    /\ UNCHANGED <<cfg, iter, account_confirmations, signature_confirmations, tasks,
                   acctDrain, sigDrain, sigSubmitted, acctWritten, log, timedOut,
                   waited>>
    /\ UNCHANGED EngOthers

\* A variant of Subscribes that goes by the configuration alone.
SubscribesWhenEnabled(txn, enabled) == enabled

\* subscribe_if_needed: it returns (None, None) when the builder reports no
\* signature (lines 261-263), and subscribes or tracks only what the
\* configuration enables (lines 266, 290).
Subscribes(txn, enabled) == txn /\ enabled

\* step, lines 224-256, and run, line 190: subscribe_if_needed sends the
\* signature subscription and tracks the id, the delivery is tracked, the
\* completion task is spawned; the loop goes on or run returns.
EngSubscribe ==
    /\ epc = "subscribe"
    /\ LET id == cur.id
           sync == cfg.enforce_total_sync
           sig == Subscribes(cur.txn, cfg.subscribe_to_signatures)
           acct == Subscribes(cur.txn, cfg.subscribe_to_accounts)
       IN
        /\ sigSubmitted' = IF sig THEN sigSubmitted \cup {id} ELSE sigSubmitted
        /\ acctWritten' = IF acct
                          THEN acctWritten \cup {id} ELSE acctWritten
        /\ signature_confirmations' =
               IF sig THEN Track(signature_confirmations, id, sync)
               ELSE signature_confirmations
        /\ account_confirmations' =
               IF acct THEN Track(account_confirmations, id, sync)
               ELSE account_confirmations
        /\ delivery_confirmations' =
               [delivery_confirmations EXCEPT ![cur.name] = Track(@, id, FALSE)]
        /\ tasks' = [tasks EXCEPT ![id] =
               [pc |-> "http", permit |-> TRUE,
                account_rx |-> acct /\ sync, signature_rx |-> sig /\ sync,
                name |-> cur.name, outcome |-> "none"]]
    /\ iter' = iter + 1
    /\ epc' = IF iter + 1 < MaxIter THEN "tick" ELSE "done"
    /\ UNCHANGED <<cfg, cur, acctDrain, sigDrain, log, timedOut, waited, permits>>
    /\ UNCHANGED EngOthers

\* The completion task ends: the permit, if still held, and the shutdown
\* handle are dropped.
TaskEnds(id, to) ==
    IF to = "done" /\ tasks[id].permit
    THEN DropPermit
    ELSE UNCHANGED <<permits, waited>>

\* completion task, lines 234-244: response.resolve() has completed.
\*   "ok"           Ok(Some(true)) or Ok(None)
\*   "failed"       Ok(Some(false)): warn "request failed to be executed"
\*   "undelivered"  Err(_): error "request failed to be delivered"
TaskHttp(id, outcome) ==
    /\ tasks[id].pc = "http"
    /\ log' = IF outcome = "ok" THEN log ELSE log \cup {<<id, outcome>>}
    /\ delivery_confirmations' =
           [delivery_confirmations EXCEPT
               ![tasks[id].name] = ObserveDelivery(@, id, outcome)]
    /\ LET to == AfterHttp(tasks[id])
           drop == DropsPermitAfterHttp(cfg.enforce_total_sync)
       IN
        /\ tasks' = [tasks EXCEPT ![id].pc = to,
                                  ![id].outcome = outcome,
                                  ![id].permit = ~drop /\ to # "done"]
        /\ IF drop \/ to = "done" THEN DropPermit ELSE UNCHANGED <<permits, waited>>
    /\ UNCHANGED <<cfg, epc, iter, cur, account_confirmations, signature_confirmations,
                   acctDrain, sigDrain, sigSubmitted, acctWritten, timedOut>>
    /\ UNCHANGED EngOthers

\* completion task, lines 246-250: timeout(CONFIRMATION_TIMEOUT, rx) gave the
\* value observe sent.
TaskAcctReceived(id) ==
    /\ tasks[id].pc = "acct"
    /\ Delivered(account_confirmations, id)
    /\ tasks' = [tasks EXCEPT ![id].pc = AfterAcct(tasks[id]),
                              ![id].permit = @ /\ AfterAcct(tasks[id]) # "done"]
    /\ TaskEnds(id, AfterAcct(tasks[id]))
    /\ UNCHANGED <<cfg, epc, iter, cur, account_confirmations, signature_confirmations,
                   delivery_confirmations, acctDrain, sigDrain, sigSubmitted,
                   acctWritten, log, timedOut>>
    /\ UNCHANGED EngOthers

\* completion task, lines 246-250: the timeout came first; the id is removed
\* from the account tracker.
TaskAcctTimeout(id) ==
    /\ tasks[id].pc = "acct"
    /\ ~Delivered(account_confirmations, id)
    /\ account_confirmations' = Remove(account_confirmations, id)
    /\ timedOut' = timedOut \cup {<<"acct", id>>}
    /\ tasks' = [tasks EXCEPT ![id].pc = AfterAcct(tasks[id]),
                              ![id].permit = @ /\ AfterAcct(tasks[id]) # "done"]
    /\ TaskEnds(id, AfterAcct(tasks[id]))
    /\ UNCHANGED <<cfg, epc, iter, cur, signature_confirmations,
                   delivery_confirmations, acctDrain, sigDrain, sigSubmitted,
                   acctWritten, log>>
    /\ UNCHANGED EngOthers

\* completion task, lines 252-255: the signature wait gave the value.
TaskSigReceived(id) ==
    /\ tasks[id].pc = "sig"
    /\ Delivered(signature_confirmations, id)
    /\ tasks' = [tasks EXCEPT ![id].pc = "done", ![id].permit = FALSE]
    /\ TaskEnds(id, "done")
    /\ UNCHANGED <<cfg, epc, iter, cur, account_confirmations, signature_confirmations,
                   delivery_confirmations, acctDrain, sigDrain, sigSubmitted,
                   acctWritten, log, timedOut>>
    /\ UNCHANGED EngOthers

\* completion task, lines 252-255: the timeout came first; its result is
\* discarded (`let _ =`).
TaskSigTimeout(id) ==
    /\ tasks[id].pc = "sig"
    /\ ~Delivered(signature_confirmations, id)
    /\ timedOut' = timedOut \cup {<<"sig", id>>}
    /\ tasks' = [tasks EXCEPT ![id].pc = "done", ![id].permit = FALSE]
    /\ TaskEnds(id, "done")
    /\ UNCHANGED <<cfg, epc, iter, cur, account_confirmations, signature_confirmations,
                   delivery_confirmations, acctDrain, sigDrain, sigSubmitted,
                   acctWritten, log>>
    /\ UNCHANGED EngOthers

\* confirm_by_id: `Some((id, v)) = self.rx.recv()`: a WsWorker delivered the
\* notification of the one-shot signature subscription of id. The flag v it
\* carries is forwarded to the completion task, which discards it.
SigConfirm(id) ==
    /\ sigDrain
    /\ id \in sigSubmitted
    /\ sigSubmitted' = sigSubmitted \ {id}
    /\ signature_confirmations' = Observe(signature_confirmations, id, TRUE)
    /\ UNCHANGED <<cfg, epc, iter, cur, account_confirmations, delivery_confirmations,
                   tasks, acctDrain, sigDrain, acctWritten, log, timedOut, waited,
                   permits>>
    /\ UNCHANGED EngOthers

\* confirm_by_value: `Some((_, id)) = self.rx.recv()`: a WsWorker delivered the
\* account notification whose data carries id, written by the transaction of
\* step id.
AcctConfirm(id) ==
    /\ acctDrain
    /\ id \in acctWritten
    /\ acctWritten' = acctWritten \ {id}
    /\ account_confirmations' = Observe(account_confirmations, id, id)
    /\ UNCHANGED <<cfg, epc, iter, cur, signature_confirmations,
                   delivery_confirmations, tasks, acctDrain, sigDrain, sigSubmitted,
                   log, timedOut, waited, permits>>
    /\ UNCHANGED EngOthers

\* confirm_by_value: `_ = self.shutdown.recv()`.
AcctDrainStops ==
    /\ acctDrain
    /\ Stopped
    /\ acctDrain' = FALSE
    /\ UNCHANGED <<cfg, epc, iter, cur, account_confirmations, signature_confirmations,
                   delivery_confirmations, tasks, sigDrain, sigSubmitted, acctWritten,
                   log, timedOut, waited, permits>>
    /\ UNCHANGED EngOthers

\* confirm_by_id: `_ = self.shutdown.recv()`.
SigDrainStops ==
    /\ sigDrain
    /\ Stopped
    /\ sigDrain' = FALSE
    /\ UNCHANGED <<cfg, epc, iter, cur, account_confirmations, signature_confirmations,
                   delivery_confirmations, tasks, acctDrain, sigSubmitted, acctWritten,
                   log, timedOut, waited, permits>>
    /\ UNCHANGED EngOthers

EngNext ==
    \/ \E txn \in BOOLEAN : EngStep(txn)
    \/ EngSubscribe
    \/ \E id \in Ids, outcome \in {"ok", "failed", "undelivered"} : TaskHttp(id, outcome)
    \/ \E id \in Ids : TaskAcctReceived(id)
    \/ \E id \in Ids : TaskAcctTimeout(id)
    \/ \E id \in Ids : TaskSigReceived(id)
    \/ \E id \in Ids : TaskSigTimeout(id)
    \/ \E id \in Ids : SigConfirm(id)
    \/ \E id \in Ids : AcctConfirm(id)
    \/ AcctDrainStops
    \/ SigDrainStops

\* The confirmation kinds the step of id subscribed to, with their trackers.
SubscribedKinds(id) ==
    IF tasks[id].name # NameOf(TRUE)
    THEN {}
    ELSE (IF cfg.subscribe_to_accounts THEN {"acct"} ELSE {})
            \cup (IF cfg.subscribe_to_signatures THEN {"sig"} ELSE {})

TrackerOf(kind) ==
    IF kind = "acct" THEN account_confirmations ELSE signature_confirmations

AllTrackers ==
    {account_confirmations, signature_confirmations}
        \cup {delivery_confirmations[n] : n \in DOMAIN delivery_confirmations}

\* C1: once the run has finished (run returned, every completion task and
\* both drain tasks ended), the pending map of every tracker is empty.
C1_PendingEmptyAfterRun ==
    Finished => \A c \in AllTrackers : DOMAIN c.pending = {}

\* C5: the permits held (returned by tick and not yet dropped) never exceed
\* `concurrency`, they and the free ones add up to `concurrency`, and tick
\* can return exactly when fewer than `concurrency` are held.
C5_PermitsBounded ==
    /\ Held <= concurrency
    /\ permits + Held = concurrency
    /\ (epc = "tick" /\ iter < MaxIter) =>
           ((ENABLED (\E txn \in BOOLEAN : EngStep(txn))) <=> Held < concurrency)

\* C5 witness: tick had to wait for a permit, got it when one was dropped,
\* and every permit is out again.
C5_Witness ==
    /\ waited
    /\ epc = "subscribe"
    /\ Held = concurrency
    /\ permits = 0

\* C8: with enforce_total_sync a completion task gives its permit back only
\* once each confirmation kind it subscribed to was delivered to it or timed
\* out; without it the permit is back as soon as the response is handled.
C8_PermitRelease ==
    \A id \in Spawned :
        /\ (cfg.enforce_total_sync /\ ~tasks[id].permit) =>
               /\ tasks[id].pc = "done"
               /\ \A kind \in SubscribedKinds(id) :
                      \/ Delivered(TrackerOf(kind), id)
                      \/ <<kind, id>> \in timedOut
        /\ ~cfg.enforce_total_sync => (tasks[id].permit <=> tasks[id].pc = "http")

\* C8 witness: under enforce_total_sync a task that waited for both kinds has
\* given its permit back, the account update delivered and the signature wait
\* timed out, while another task, its response handled, still holds its own.
C8_Witness ==
    /\ cfg.enforce_total_sync
    /\ \E id \in Spawned :
        /\ ~tasks[id].permit
        /\ Delivered(account_confirmations, id)
        /\ <<"sig", id>> \in timedOut
    /\ \E id \in Spawned : tasks[id].permit /\ tasks[id].pc \in {"acct", "sig"}

\* C9: a confirmation wait that timed out has left no pending entry for its id
\* in its tracker and no sample is ever recorded for that id.
C9_TimeoutDropsPending ==
    \A e \in timedOut :
        /\ e[2] \notin DOMAIN TrackerOf(e[1]).pending
        /\ Samples(TrackerOf(e[1]), e[2]) = 0

\* C10: a request whose HTTP response failed (not delivered, or the result
\* signals failure) has no delivery sample.
C10_NoSampleForFailedRequest ==
    \A id \in Spawned :
        tasks[id].outcome \in {"failed", "undelivered"} =>
            Samples(delivery_confirmations[tasks[id].name], id) = 0

\* Confirmations::finalize: the statistics of the samples; of them the count,
\* the number of samples handed over.
FinalizeCount(c) == BagCardinality(c.observations)

\* BenchResults::stats: request_stats, one entry per mode name.
RequestStats ==
    [n \in DOMAIN delivery_confirmations |-> FinalizeCount(delivery_confirmations[n])]

RECURSIVE SumOver(_, _)
SumOver(f, S) ==
    IF S = {} THEN 0
    ELSE LET x == CHOOSE y \in S : TRUE IN f[x] + SumOver(f, S \ {x})

OWNER_PUBKEY_SIZE == 32

\* the length of u64::to_le_bytes
U64Bytes == 8

None == -1

\* u64::to_le_bytes, and Pubkey::as_ref for the keys of the model, which are
\* numbers written in len bytes, the least significant first
RECURSIVE ToLeBytes(_, _)
ToLeBytes(n, len) ==
    IF len = 0 THEN <<>> ELSE <<n % 256>> \o ToLeBytes(n \div 256, len - 1)

\* u64::from_le_bytes
RECURSIVE FromLeBytes(_)
FromLeBytes(b) ==
    IF b = <<>> THEN 0 ELSE b[1] + 256 * FromLeBytes(Tail(b))

\* data_offset
DataOffset == OWNER_PUBKEY_SIZE

\* prepare_buffer: target[index .. index + len(data)] = data
PrepareBuffer(index, target, data) ==
    [i \in 1..Len(target) |->
        IF i > index /\ i <= index + Len(data) THEN data[i - index] ELSE target[i]]

\* simple_byte_set, lines 172-176, for one account:
\* while index + buffer.len() <= data.len() { prepare_buffer(..) }
RECURSIVE FillWith(_, _, _)
FillWith(index, data, buffer) ==
    IF index + Len(buffer) <= Len(data)
    THEN FillWith(index + Len(buffer), PrepareBuffer(index, data, buffer), buffer)
    ELSE data

\* simple_byte_set on one account: accounts without lamports are skipped
SimpleByteSetOn(data, lamports, id) ==
    IF lamports = 0 THEN data ELSE FillWith(DataOffset, data, ToLeBytes(id, U64Bytes))

\* account_update_extractor. The notification carries the account's data in
\* one of the encodings; `data` is what decoding it gives, the bytes the
\* server encoded. Lines 20-22: data.get(..8)?, from_le_bytes.
AccountUpdateExtractor(encoding, data) ==
    IF encoding \notin {"base58", "base64", "base64+zstd"} THEN None
    ELSE IF Len(data) < U64Bytes THEN None
    ELSE FromLeBytes(SubSeq(data, 1, U64Bytes))

\* init_account: `space` zero bytes, the payer's key in the first 32
InitAccountData(space, payer) ==
    PrepareBuffer(0, [i \in 1..space |-> 0], ToLeBytes(payer, OWNER_PUBKEY_SIZE))

\* sizes of the account, keys of the payer and ids of the model
Spaces == {36, 40, 48}

Payers == {1, 7, 258}

CodecIds == {0, 1, 7, 258, 65536}

Encodings == {"base58", "base64", "base64+zstd", "jsonParsed"}

CodecInit ==
    /\ \E space \in Spaces, payer \in Payers : acctData = InitAccountData(space, payer)
    /\ acctLamports \in {0, 1}
    /\ lastId = None
    /\ wrote = FALSE
    /\ extracted = None
    /\ nops = 0

CodecIdle ==
    /\ acctData = <<>>
    /\ acctLamports = 0
    /\ lastId = None
    /\ wrote = FALSE
    /\ extracted = None
    /\ nops = 0

\* Instruction::SimpleByteSet { id } executes on the account.
CodecSimpleByteSet(id) ==
    /\ nops < MaxOps
    /\ acctData' = SimpleByteSetOn(acctData, acctLamports, id)
    /\ lastId' = id
    /\ wrote' = (acctLamports # 0)
    /\ extracted' = None
    /\ nops' = nops + 1
    /\ UNCHANGED acctLamports
    /\ UNCHANGED CodecOthers

\* The notification of the account's update reaches the extractor.
CodecExtract(encoding) ==
    /\ nops < MaxOps
    /\ lastId # None
    /\ extracted = None
    /\ extracted' = AccountUpdateExtractor(encoding, acctData)
    /\ nops' = nops + 1
    /\ UNCHANGED <<acctData, acctLamports, lastId, wrote>>
    /\ UNCHANGED CodecOthers

CodecNext ==
    \/ \E id \in CodecIds : CodecSimpleByteSet(id)
    \/ \E encoding \in Encodings : CodecExtract(encoding)

\* C12: the extractor applied to the notification of an initialised account
\* of at least 40 bytes that SimpleByteSet{id} wrote returns id.
C12_ExtractorReturnsWrittenId ==
    (wrote /\ Len(acctData) >= DataOffset + U64Bytes /\ extracted # None)
        => extracted = lastId

(***************************************************************************)
(* The orchestrator (main.rs): keypairs, engine threads, the progress bar   *)
(* (progress.rs), join, merge and write. An engine thread is BenchRunner::  *)
(* run as far as main sees it: the iterations it has counted in `progress`, *)
(* and how it ended.                                                       *)
(***************************************************************************)
\* u8::MAX
U8Max == 255

Panic == -1

\* `config.payers * config.parallelism` on u8: a build with overflow checks
\* panics when the product exceeds u8::MAX, a build without them wraps
MulU8(a, b, build) ==
    IF a * b <= U8Max THEN a * b
    ELSE IF build = "release" THEN (a * b) % (U8Max + 1)
    ELSE Panic

\* (1..=n).map(read_from_file).collect()
KeypairFiles(n) == [i \in 1..n |-> i]

Min(a, b) == IF a <= b THEN a ELSE b

\* slice::chunks(size)
RECURSIVE Chunks(_, _)
Chunks(seq, size) ==
    IF seq = <<>> THEN <<>>
    ELSE <<SubSeq(seq, 1, Min(size, Len(seq)))>>
             \o Chunks(SubSeq(seq, Min(size, Len(seq)) + 1, Len(seq)), size)

RECURSIVE SumDone(_, _)
SumDone(es, S) ==
    IF S = {} THEN 0
    ELSE LET x == CHOOSE y \in S : TRUE IN es[x].done + SumDone(es, S \ {x})

\* the shared `progress` counter
Progress == SumDone(engines, DOMAIN engines)

\* ProgressBar::new(iterations * parallelism, ..)
BarTotal == MaxMainIter * mcfg.parallelism

\* values of config.payers the model draws from
PayerCounts == {1, 2, 128, 200}

MainInit ==
    /\ mcfg \in [parallelism : 1..MaxPar, payers : PayerCounts,
                 build : {"debug", "release"}]
    /\ shutdownFlag = FALSE
    /\ mpc = "load"
    /\ keypairs = <<>>
    /\ engines = <<>>
    /\ barDone = FALSE
    /\ barLog = "none"
    /\ joined = 0
    /\ output = <<>>
    /\ mainLog = "none"

MainIdle ==
    /\ mcfg = [parallelism |-> 1, payers |-> 1, build |-> "release"]
    /\ shutdownFlag = FALSE
    /\ mpc = "exited"
    /\ keypairs = <<>>
    /\ engines = <<>>
    /\ barDone = TRUE
    /\ barLog = "none"
    /\ joined = 0
    /\ output = <<>>
    /\ mainLog = "none"

\* main, lines 37-43: the keypairs are read, the signal handlers set up.
MainLoadKeys ==
    /\ mpc = "load"
    /\ LET n == MulU8(mcfg.payers, mcfg.parallelism, mcfg.build) IN
        IF n = Panic
        THEN /\ mpc' = "panicked"
             /\ UNCHANGED keypairs
        ELSE /\ mpc' = "spawn"
             /\ keypairs' = KeypairFiles(n)
    /\ UNCHANGED <<mcfg, shutdownFlag, engines, barDone, barLog, joined, output, mainLog>>
    /\ UNCHANGED MainOthers

\* main, lines 45-76: the bar thread and one engine thread per chunk.
MainSpawn ==
    /\ mpc = "spawn"
    /\ engines' = [k \in DOMAIN Chunks(keypairs, mcfg.payers) |->
                      [st |-> "running", done |-> 0,
                       signers |-> Chunks(keypairs, mcfg.payers)[k]]]
    /\ mpc' = "bar"
    /\ UNCHANGED <<mcfg, shutdownFlag, keypairs, barDone, barLog, joined, output, mainLog>>
    /\ UNCHANGED MainOthers

\* SIGINT or SIGTERM: the registered handler stores the flag.
MainSignal ==
    /\ mpc \in {"spawn", "bar", "join", "write"}
    /\ ~shutdownFlag
    /\ shutdownFlag' = TRUE
    /\ UNCHANGED <<mcfg, mpc, keypairs, engines, barDone, barLog, joined, output, mainLog>>
    /\ UNCHANGED MainOthers

\* BenchRunner::run, lines 183-190, in engine thread e: one more iteration,
\* counted in progress.
EngineIteration(e) ==
    /\ e \in DOMAIN engines
    /\ engines[e].st = "running"
    /\ engines[e].done < MaxMainIter
    /\ engines' = [engines EXCEPT ![e].done = @ + 1]
    /\ UNCHANGED <<mcfg, shutdownFlag, mpc, keypairs, barDone, barLog, joined, output,
                   mainLog>>
    /\ UNCHANGED MainOthers

\* The loop of run is over; the thread returns results.stats().
EngineReturns(e) ==
    /\ e \in DOMAIN engines
    /\ engines[e].st = "running"
    /\ engines[e].done = MaxMainIter
    /\ engines' = [engines EXCEPT ![e].st = "finished"]
    /\ UNCHANGED <<mcfg, shutdownFlag, mpc, keypairs, barDone, barLog, joined, output,
                   mainLog>>
    /\ UNCHANGED MainOthers

\* The thread panics (an expect or unwrap of the engine fails).
EnginePanics(e) ==
    /\ e \in DOMAIN engines
    /\ engines[e].st = "running"
    /\ engines' = [engines EXCEPT ![e].st = "panicked"]
    /\ UNCHANGED <<mcfg, shutdownFlag, mpc, keypairs, barDone, barLog, joined, output,
                   mainLog>>
    /\ UNCHANGED MainOthers

\* ProgressBar::start, lines 40-63: the pass of the loop that breaks.
BarEnds ==
    /\ mpc \in {"bar", "join", "write"}
    /\ ~barDone
    /\ Progress >= BarTotal \/ shutdownFlag
    /\ barDone' = TRUE
    /\ barLog' = IF shutdownFlag THEN "interrupted" ELSE "complete"
    /\ UNCHANGED <<mcfg, shutdownFlag, mpc, keypairs, engines, joined, output, mainLog>>
    /\ UNCHANGED MainOthers

\* main, line 77: bar.join() returns.
MainBarJoined ==
    /\ mpc = "bar"
    /\ barDone
    /\ mpc' = "join"
    /\ UNCHANGED <<mcfg, shutdownFlag, keypairs, engines, barDone, barLog, joined, output,
                   mainLog>>
    /\ UNCHANGED MainOthers

\* main, lines 80-84: the next handle is joined; the first Err ends the
\* collect and `expect` panics.
MainJoin ==
    /\ mpc = "join"
    /\ joined < Len(engines)
    /\ engines[joined + 1].st # "running"
    /\ IF engines[joined + 1].st = "panicked"
       THEN mpc' = "panicked" /\ UNCHANGED joined
       ELSE joined' = joined + 1 /\ UNCHANGED mpc
    /\ UNCHANGED <<mcfg, shutdownFlag, keypairs, engines, barDone, barLog, output, mainLog>>
    /\ UNCHANGED MainOthers

\* main, lines 86-107: merge, write, log.
MainWrite ==
    /\ mpc = "join"
    /\ joined = Len(engines)
    /\ output' = <<[engines |-> DOMAIN engines, count |-> Progress]>>
    /\ mainLog' = IF shutdownFlag THEN "interrupted" ELSE "written"
    /\ mpc' = "exited"
    /\ UNCHANGED <<mcfg, shutdownFlag, keypairs, engines, barDone, barLog, joined>>
    /\ UNCHANGED MainOthers

MainNext ==
    \/ MainLoadKeys
    \/ MainSpawn
    \/ MainSignal
    \/ \E e \in 1..MaxPar : EngineIteration(e)
    \/ \E e \in 1..MaxPar : EngineReturns(e)
    \/ \E e \in 1..MaxPar : EnginePanics(e)
    \/ BarEnds
    \/ MainBarJoined
    \/ MainJoin
    \/ MainWrite

\* C13: once the shutdown flag is set no engine issues a new iteration, and
\* what main then writes is partial and logged as interrupted.
C13_EnginesDrainOnShutdown ==
    [][shutdownFlag => \A e \in DOMAIN engines : engines'[e].done = engines[e].done]_vars

\* C14: when an engine thread has panicked and main has ended, main has
\* written the merged statistics of the engines that did not.
C14_PanicStillEmitsStats ==
    (mpc \in {"exited", "panicked"} /\ \E e \in DOMAIN engines : engines[e].st = "panicked")
        => /\ mpc = "exited"
           /\ output # <<>>
           /\ output[1].engines = {e \in DOMAIN engines : engines[e].st = "finished"}

\* C18: once the engines are spawned, parallelism * payers keys were loaded,
\* there are `parallelism` engines, each has `payers` consecutive keys, and
\* no key is with two engines.
C18_SignerSlices ==
    mpc \in {"bar", "join", "exited"} =>
        /\ Len(keypairs) = mcfg.parallelism * mcfg.payers
        /\ Len(engines) = mcfg.parallelism
        /\ \A e \in DOMAIN engines :
            /\ Len(engines[e].signers) = mcfg.payers
            /\ \A i \in 1..(Len(engines[e].signers) - 1) :
                   engines[e].signers[i + 1] = engines[e].signers[i] + 1
        /\ \A e, f \in DOMAIN engines :
               e # f => \A i \in DOMAIN engines[e].signers, j \in DOMAIN engines[f].signers :
                            engines[e].signers[i] # engines[f].signers[j]

(***************************************************************************)
(* BenchStatistics::merge and ObservationsStats::merge (core/stats.rs).    *)
(*                                                                         *)
(* An ObservationsStats is [count, median, min, max, avg, quantile95,      *)
(* stddev]. The BenchStatistics of an engine is [request_stats, latency,   *)
(* rps]: request_stats a function from the mode names the engine reports   *)
(* to their stream, latency its account-update and signature streams, rps  *)
(* its observed-rate stream.                                               *)
(***************************************************************************)
\* u32::MAX, 4294967295, the start of the fold's min. It is beyond the
\* integers of TLC and written as the largest of them; every other value of
\* the model is below it, and AddU32 adds onto it as onto u32::MAX.
U32MAX == 2147483647

\* ObservationsStats::default()
DefaultStats ==
    [count |-> 0, median |-> 0, min |-> 0, max |-> 0, avg |-> 0, quantile95 |-> 0,
     stddev |-> 0]

\* a divisor that does not depend on the number of records
TotalCountOne(average, n) == 1

\* merge, line 210: let total_count = if average { stats.len() } else { 1 }
TotalCount(average, n) == IF average THEN n ELSE 1

\* a minimum that keeps the newer value
MinTakesNew(a, b) == b

\* u32::min
MinU32(a, b) == IF a <= b THEN a ELSE b

\* u32::max
MaxU32(a, b) == IF a >= b THEN a ELSE b

\* a + b on u32 without overflow checks: u32::MAX + b wraps to b - 1
AddU32(a, b) == IF a = U32MAX /\ b > 0 THEN b - 1 ELSE a + b

\* whether a + b on u32 overflows
OverflowsU32(a, b) == a = U32MAX /\ b > 0

\* merge, lines 214-215: the start of the fold
FoldStart ==
    [count |-> 0, median |-> 0, min |-> U32MAX, max |-> 0, avg |-> 0,
     quantile95 |-> 0, stddev |-> 0, overflow |-> FALSE]

\* merge, lines 216-234: one step of the fold
FoldStep(acc, stat, average) ==
    [count |-> acc.count + stat.count,
     median |-> acc.median + stat.median,
     min |-> IF average THEN MinU32(acc.min, stat.min) ELSE AddU32(acc.min, stat.min),
     max |-> IF average THEN MaxU32(acc.max, stat.max) ELSE acc.max + stat.max,
     avg |-> acc.avg + stat.avg,
     quantile95 |-> acc.quantile95 + stat.quantile95,
     stddev |-> acc.stddev + stat.stddev,
     overflow |-> acc.overflow \/ (~average /\ OverflowsU32(acc.min, stat.min))]

RECURSIVE Fold(_, _, _)
Fold(stats, acc, average) ==
    IF stats = <<>> THEN acc
    ELSE Fold(Tail(stats), FoldStep(acc, Head(stats), average), average)

\* ObservationsStats::merge. `overflow` tells that an addition of the fold
\* overflowed: the build with overflow checks panics there.
MergeObservations(stats, average) ==
    LET total_count == TotalCount(average, Len(stats))
        sum == Fold(stats, FoldStart, average)
    IN  IF total_count = 0
        THEN [stats |-> DefaultStats, overflow |-> FALSE]
        ELSE [stats |-> [count |-> sum.count,
                         median |-> sum.median \div total_count,
                         min |-> sum.min,
                         max |-> sum.max,
                         avg |-> sum.avg \div total_count,
                         quantile95 |-> sum.quantile95 \div total_count,
                         stddev |-> sum.stddev \div total_count],
              overflow |-> sum.overflow]

\* the streams of one key, in the order of the engines that report it
RECURSIVE StreamsOf(_, _)
StreamsOf(engs, key) ==
    IF engs = <<>> THEN <<>>
    ELSE (IF key \in DOMAIN Head(engs).request_stats
          THEN <<Head(engs).request_stats[key]>> ELSE <<>>)
            \o StreamsOf(Tail(engs), key)

RECURSIVE FieldOf(_, _)
FieldOf(engs, f) ==
    IF engs = <<>> THEN <<>> ELSE <<Head(engs)[f]>> \o FieldOf(Tail(engs), f)

ReportedKeys(engs) == UNION {DOMAIN engs[k].request_stats : k \in DOMAIN engs}

\* BenchStatistics::merge
BenchMerge(engs) ==
    IF engs = <<>>
    THEN [request_stats |-> <<>>, latency |-> DefaultStats, rps |-> DefaultStats,
          overflow |-> FALSE]
    ELSE [request_stats |->
              [key \in ReportedKeys(engs) |->
                  MergeObservations(StreamsOf(engs, key), TRUE).stats],
          latency |-> MergeObservations(FieldOf(engs, "latency"), TRUE).stats,
          rps |-> MergeObservations(FieldOf(engs, "rps"), FALSE).stats,
          overflow |-> MergeObservations(FieldOf(engs, "rps"), FALSE).overflow]

\* the statistics an engine may report
StatSamples ==
    {[count |-> c, median |-> 2 + 2 * lo, min |-> lo, max |-> lo + 4, avg |-> 3 + 2 * lo,
      quantile95 |-> lo + 3, stddev |-> c] : c \in {1, 2}, lo \in {0, 1}}

ModeNames == {"SimpleByteSet", "GetBalance"}

KeySets == {{"SimpleByteSet"}, {"SimpleByteSet", "GetBalance"}}

EngineStats(keys, st) ==
    [request_stats |-> [k \in keys |-> st], latency |-> st, rps |-> st]

MergeInit ==
    /\ mstats = <<>>
    /\ mbuild \in {"debug", "release"}
    /\ mmerged = <<>>
    /\ mpanicked = FALSE

MergeIdle ==
    /\ mstats = <<>>
    /\ mbuild = "release"
    /\ mmerged = <<[request_stats |-> <<>>, latency |-> DefaultStats,
                    rps |-> DefaultStats]>>
    /\ mpanicked = FALSE

\* main, lines 80-84: the statistics of one more engine are collected.
MergeCollect(keys, st) ==
    /\ mmerged = <<>>
    /\ ~mpanicked
    /\ Len(mstats) < MaxEngines
    /\ mstats' = Append(mstats, EngineStats(keys, st))
    /\ UNCHANGED <<mbuild, mmerged, mpanicked>>
    /\ UNCHANGED MergeOthers

\* main, line 86: BenchStatistics::merge(stats).
MergeRun ==
    /\ mmerged = <<>>
    /\ ~mpanicked
    /\ LET m == BenchMerge(mstats) IN
        IF m.overflow /\ mbuild = "debug"
        THEN /\ mpanicked' = TRUE
             /\ UNCHANGED mmerged
        ELSE /\ mmerged' = <<[request_stats |-> m.request_stats,
                              latency |-> m.latency, rps |-> m.rps]>>
             /\ UNCHANGED mpanicked
    /\ UNCHANGED <<mstats, mbuild>>
    /\ UNCHANGED MergeOthers

MergeNext ==
    \/ \E keys \in KeySets, st \in StatSamples : MergeCollect(keys, st)
    \/ MergeRun

\* The sum, the least and the greatest of field fld of the records g[x],
\* x in S.
RECURSIVE SumField(_, _, _)
SumField(g, S, fld) ==
    IF S = {} THEN 0
    ELSE LET x == CHOOSE y \in S : TRUE IN g[x][fld] + SumField(g, S \ {x}, fld)

LeastField(g, S, fld) == CHOOSE v \in {g[x][fld] : x \in S} : \A x \in S : v <= g[x][fld]

GreatestField(g, S, fld) == CHOOSE v \in {g[x][fld] : x \in S} : \A x \in S : v >= g[x][fld]

\* r is the latency merge of the records g[x], x in S (S not empty)
IsLatencyMerge(r, g, S) ==
    /\ r.count = SumField(g, S, "count")
    /\ r.min = LeastField(g, S, "min")
    /\ r.max = GreatestField(g, S, "max")
    /\ r.median = SumField(g, S, "median") \div Cardinality(S)
    /\ r.avg = SumField(g, S, "avg") \div Cardinality(S)
    /\ r.quantile95 = SumField(g, S, "quantile95") \div Cardinality(S)
    /\ r.stddev = SumField(g, S, "stddev") \div Cardinality(S)

\* the engines that report key
Reporting(key) == {k \in DOMAIN mstats : key \in DOMAIN mstats[k].request_stats}

\* C15: the merged latency statistics have count = the sum of the counts,
\* min = the least min, max = the greatest max, and median, avg, quantile95,
\* stddev = the sum of the engines' values divided by their number; for
\* request_stats this holds per mode key over the engines that report the key.
C15_LatencyMerge ==
    (mmerged # <<>> /\ mstats # <<>>) =>
        /\ IsLatencyMerge(mmerged[1].latency,
                          [k \in DOMAIN mstats |-> mstats[k].latency], DOMAIN mstats)
        /\ DOMAIN mmerged[1].request_stats = {key \in ModeNames : Reporting(key) # {}}
        /\ \A key \in DOMAIN mmerged[1].request_stats :
               IsLatencyMerge(mmerged[1].request_stats[key],
                              [k \in Reporting(key) |-> mstats[k].request_stats[key]],
                              Reporting(key))

\* C15 witness: three engines merged, a key that only some of them report,
\* and a sum of medians that their number does not divide.
C15_Witness ==
    /\ mmerged # <<>>
    /\ Len(mstats) = 3
    /\ Cardinality(Reporting("GetBalance")) = 2
    /\ (mstats[1].latency.median + mstats[2].latency.median
            + mstats[3].latency.median) % 3 # 0
    /\ mstats[1].latency.min # mstats[2].latency.min

\* C16: the merged rps statistics have every field, min and max included,
\* equal to the sum of the engines' values.
C16_RpsMerge ==
    (mmerged # <<>> /\ mstats # <<>>) =>
        LET g == [k \in DOMAIN mstats |-> mstats[k].rps] IN
        \A fld \in {"count", "median", "min", "max", "avg", "quantile95", "stddev"} :
            mmerged[1].rps[fld] = SumField(g, DOMAIN mstats, fld)

Permuted(q, p) == [i \in DOMAIN q |-> q[p[i]]]

CountMinMax(r) == <<r.count, r.min, r.max>>

LatencyMergeOf(q) == MergeObservations(q, TRUE).stats

\* C17: the latency merge of the engines' statistics is the same for every
\* order of them; on count, min and max it is the same when a prefix and the
\* rest are merged first and the two results merged, and a merged with the
\* merge of b and c equals the merge of a and b merged with c.
C17_MergeOrderAndGrouping ==
    (mmerged # <<>> /\ mstats # <<>>) =>
        LET q == FieldOf(mstats, "latency") IN
        /\ mmerged[1].latency = LatencyMergeOf(q)
        /\ \A p \in Permutations(DOMAIN q) : LatencyMergeOf(Permuted(q, p)) = LatencyMergeOf(q)
        /\ \A i \in 1..(Len(q) - 1) :
               CountMinMax(LatencyMergeOf(<<LatencyMergeOf(SubSeq(q, 1, i)),
                                            LatencyMergeOf(SubSeq(q, i + 1, Len(q)))>>))
                   = CountMinMax(LatencyMergeOf(q))
        /\ Len(q) >= 3 =>
               CountMinMax(LatencyMergeOf(<<q[1], LatencyMergeOf(<<q[2], q[3]>>)>>))
                   = CountMinMax(LatencyMergeOf(<<LatencyMergeOf(<<q[1], q[2]>>), q[3]>>))

\* C17 witness: three engines merged whose counts, mins and medians are not
\* all the same.
C17_Witness ==
    /\ mmerged # <<>>
    /\ Len(mstats) = 3
    /\ mstats[1].latency.min > mstats[2].latency.min
    /\ mstats[2].latency.count # mstats[3].latency.count
    /\ mstats[1].latency.median # mstats[3].latency.median

(***************************************************************************)
(* TransferManager (transfer.rs), called once per iteration by run.        *)
(***************************************************************************)
\* values of benchmark.clone_frequency_ms the model draws from
Frequencies == {0, 2, 3}

\* the PDAs of the engine
PdaQueues == {<<>>, <<"pda1">>, <<"pda1", "pda2">>, <<"pda1", "pda2", "pda3">>}

TransferInit ==
    /\ tfrequency \in Frequencies
    /\ tpdas \in PdaQueues
    /\ tlast = 0
    /\ tnow = 0
    /\ tfires = <<>>
    /\ tcalls = 0
    /\ ttargets = <<>>

TransferIdle ==
    /\ tfrequency = 0
    /\ tpdas = <<>>
    /\ tlast = 0
    /\ tnow = 0
    /\ tfires = <<>>
    /\ tcalls = 0
    /\ ttargets = <<>>

\* TransferManager::transfer: whether the call sends a transfer
Fires == tfrequency # 0 /\ ~(tnow - tlast < tfrequency) /\ tpdas # <<>>

\* A variant of Requeued that puts the PDA back at the head.
RequeuedAtHead(pdas) == pdas

\* TransferManager::transfer: `self.pdas.pop_front()` (line 81) and
\* `self.pdas.push_back(pda)` (line 97).
Requeued(pdas) == Append(Tail(pdas), Head(pdas))

\* TransferManager::transfer, lines 70-99.
TransferCall ==
    /\ tcalls < MaxTransfers
    /\ tcalls' = tcalls + 1
    /\ IF Fires
       THEN /\ tpdas' = Requeued(tpdas)
            /\ tfires' = Append(tfires, tnow)
            /\ ttargets' = Append(ttargets, Head(tpdas))
       ELSE UNCHANGED <<tpdas, tfires, ttargets>>
    /\ UNCHANGED <<tfrequency, tlast, tnow>>
    /\ UNCHANGED TransferOthers

\* Time passes between two iterations of run.
TransferTimePasses ==
    /\ tnow < MaxClock
    /\ tnow' = tnow + 1
    /\ UNCHANGED <<tfrequency, tlast, tpdas, tfires, tcalls, ttargets>>
    /\ UNCHANGED TransferOthers

TransferNext ==
    \/ TransferCall
    \/ TransferTimePasses

\* C19: with clone_frequency_ms > 0, two consecutive transfers are at least
\* clone_frequency_ms apart.
C19_TransfersSpaced ==
    tfrequency > 0 =>
        \A k \in 1..(Len(tfires) - 1) : tfires[k + 1] - tfires[k] >= tfrequency

\* Claim C34: a transfer takes the PDA at the head of the queue and puts it
\* back at the tail: the queue keeps the PDAs it has, the most recent
\* targets are the tail of the queue in the same order, and any Len(tpdas)
\* consecutive transfers go to each PDA exactly once.
C34_TransfersRotateFifo ==
    LET n == Len(tpdas)
        m == Len(ttargets)
    IN
    /\ \E pq \in PdaQueues :
          tpdas = [k \in 1..Len(pq) |-> pq[((k - 1 + m) % Len(pq)) + 1]]
    /\ \A a, b \in DOMAIN tpdas : a # b => tpdas[a] # tpdas[b]
    /\ \A k \in 1..n : k <= m => ttargets[m - k + 1] = tpdas[n - k + 1]
    /\ \A k \in 1..m : k + n - 1 <= m =>
            \A q \in DOMAIN tpdas :
                Cardinality({i \in k..(k + n - 1) : ttargets[i] = tpdas[q]}) = 1
    /\ \A k \in 1..m : k + n <= m => ttargets[k + n] = ttargets[k]

\* A queue of three PDAs has had a full round of transfers and one more.
C34_Witness ==
    /\ Len(tpdas) = 3
    /\ Len(ttargets) = 4

(***************************************************************************)
(* SpecTracker: track, observe and remove called in any order.             *)
(***************************************************************************)
NoCall == [op |-> "none", id |-> 0, v |-> FALSE]

TrkInit ==
    /\ trk = NewConfirmations
    /\ call = NoCall
    /\ seen = {}
    /\ ncalls = 0
    /\ dups = 0

TrkIdle ==
    /\ trk = NewConfirmations
    /\ call = NoCall
    /\ seen = {}
    /\ ncalls = 0
    /\ dups = 0

TrkTrack(id, tx) ==
    /\ ncalls < MaxCalls
    /\ trk' = Track(trk, id, tx)
    /\ call' = [op |-> "track", id |-> id, v |-> tx]
    /\ seen' = seen \ {id}
    /\ ncalls' = ncalls + 1
    /\ UNCHANGED dups
    /\ UNCHANGED TrkOthers

TrkObserve(id, v) ==
    /\ ncalls < MaxCalls
    /\ trk' = Observe(trk, id, v)
    /\ call' = [op |-> "observe", id |-> id, v |-> v]
    /\ seen' = seen \cup {id}
    /\ ncalls' = ncalls + 1
    /\ dups' = IF id \in seen THEN dups + 1 ELSE dups
    /\ UNCHANGED TrkOthers

TrkRemove(id) ==
    /\ ncalls < MaxCalls
    /\ trk' = Remove(trk, id)
    /\ call' = [op |-> "remove", id |-> id, v |-> FALSE]
    /\ ncalls' = ncalls + 1
    /\ UNCHANGED <<seen, dups>>
    /\ UNCHANGED TrkOthers

TrkNext ==
    \/ \E id \in Ids, tx \in BOOLEAN : TrkTrack(id, tx)
    \/ \E id \in Ids, v \in BOOLEAN : TrkObserve(id, v)
    \/ \E id \in Ids : TrkRemove(id)

\* C4: after track(id), the first observe(id, v) removes the pending entry,
\* records exactly one sample and sends v through the attached sender (if any);
\* every later observe(id, _) before id is tracked again changes nothing.
C4_FirstObserveOnly ==
    [][\A id \in Ids, v \in BOOLEAN :
        (call' = [op |-> "observe", id |-> id, v |-> v] /\ ncalls' = ncalls + 1) =>
            /\ id \in seen => trk' = trk
            /\ id \in DOMAIN trk.pending =>
                /\ trk'.pending = MapRemove(trk.pending, id)
                /\ trk'.observations = Push(trk.observations, id)
                /\ trk'.sent = IF trk.pending[id].tx
                               THEN Push(trk.sent, <<id, v>>)
                               ELSE trk.sent]_vars

\* C4 witness: an id observed twice since it was tracked, its first observe
\* having sent through the attached sender.
C4_Witness ==
    /\ dups > 0
    /\ call.op = "observe"
    /\ call.id \in seen
    /\ Sent(trk, call.id)
    /\ Samples(trk, call.id) = 1

(***************************************************************************)
(* The shutdown handle (main.rs 119-143) and the background tasks of one   *)
(* engine that listen to it: the blockhash refresher, the WsWorkers of the *)
(* two pools and the two drain tasks of the trackers.                      *)
(***************************************************************************)
Kinds == {"acct", "sig"}

\* One WsWorker per connection of the pool of each kind (websocket.rs 210-216).
SdWorkerIds == Kinds \X (1..MaxWs)

\* The trackers of BenchResults: account and signature confirmations, and
\* the delivery confirmations of the mode benchmarked.
Trackers == Kinds \cup {"delivery"}

\* The trackers a completion task holds a handle to: `delivery` and
\* `account_confirmations` are moved into it (runner.rs 215-219, 232-233).
TaskTrackers == {"acct", "delivery"}

\* Rc::clone and the drop of one Rc on the strong count.
RcClone(n) == n + 1

RcDrop(n) == n - 1

\* A variant of SentAfter in which every drop of a handle sends.
SentAfterAnyDrop(sent, strong) == TRUE

\* Drop for ShutDownSender runs when the last Rc goes: it sends () and the
\* Sender is gone, so the channel is closed (main.rs 126-130).
SentAfter(sent, strong) == sent \/ strong = 0

\* broadcast::Receiver::recv resolves, with Ok(()) or with Err(Closed), once
\* the sender was dropped; `_ = shutdown.recv()` accepts either.
ListenerReady(sent) == sent

SendIgnoresClosed(queued, rxDropped) ==
    IF queued < MaxChan THEN "ok" ELSE "wait"

\* mpsc::Sender::send: an error once the Receiver is dropped, else the value
\* is queued when the channel has room, else the send waits.
SendOutcome(queued, rxDropped) ==
    IF rxDropped THEN "err" ELSE IF queued < MaxChan THEN "ok" ELSE "wait"

SdInit ==
    /\ sdRun = "running"
    /\ sdTasks = 0
    /\ sdStrong = 1
    /\ sdSent = FALSE
    /\ sdRefresher = "select"
    /\ sdWorkers = [w \in SdWorkerIds |-> "select"]
    /\ sdDrains = [k \in Kinds |-> "select"]
    /\ sdChan = [k \in Kinds |-> 0]
    /\ sdHandles = [t \in Trackers |-> IF t \in Kinds THEN 2 ELSE 1]
    /\ sdFinal = "no"

SdIdle ==
    /\ sdRun = "returned"
    /\ sdTasks = 0
    /\ sdStrong = 0
    /\ sdSent = TRUE
    /\ sdRefresher = "ended"
    /\ sdWorkers = <<>>
    /\ sdDrains = <<>>
    /\ sdChan = <<>>
    /\ sdHandles = [t \in Trackers |-> 1]
    /\ sdFinal = "ok"

\* step: `let shutdown = self.shutdown.clone()` moved into the completion task
\* it spawns (runner.rs 230-256).
SdSpawn ==
    /\ sdRun = "running"
    /\ sdTasks < MaxInflight
    /\ sdTasks' = sdTasks + 1
    /\ sdStrong' = RcClone(sdStrong)
    /\ UNCHANGED <<sdRun, sdSent, sdRefresher, sdWorkers, sdDrains, sdChan>>
    /\ sdHandles' = [t \in Trackers |-> IF t \in TaskTrackers
                                         THEN RcClone(sdHandles[t]) ELSE sdHandles[t]]
    /\ UNCHANGED sdFinal
    /\ UNCHANGED ShutdownOthers

\* run returns its BenchResults: the rest of self, its shutdown handle
\* included, is dropped (runner.rs 193-200).
SdRunReturns ==
    /\ sdRun = "running"
    /\ sdRun' = "returned"
    /\ sdStrong' = RcDrop(sdStrong)
    /\ sdSent' = SentAfter(sdSent, sdStrong')
    /\ UNCHANGED <<sdTasks, sdRefresher, sdWorkers, sdDrains, sdChan>>
    /\ UNCHANGED <<sdHandles, sdFinal>>
    /\ UNCHANGED ShutdownOthers

\* A completion task ends, its HTTP response resolved and its waits over, each
\* after CONFIRMATION_TIMEOUT at most: `drop(shutdown)` (runner.rs 234-255).
SdTaskEnds ==
    /\ sdTasks > 0
    /\ sdTasks' = sdTasks - 1
    /\ sdStrong' = RcDrop(sdStrong)
    /\ sdSent' = SentAfter(sdSent, sdStrong')
    /\ UNCHANGED <<sdRun, sdRefresher, sdWorkers, sdDrains, sdChan>>
    /\ sdHandles' = [t \in Trackers |-> IF t \in TaskTrackers
                                         THEN RcDrop(sdHandles[t]) ELSE sdHandles[t]]
    /\ UNCHANGED sdFinal
    /\ UNCHANGED ShutdownOthers

\* refresher: `_ = interval.tick()` is taken and the request is sent
\* (blockhash.rs 69-70).
SdRefresherTick ==
    /\ sdRefresher = "select"
    /\ sdRefresher' = "request"
    /\ UNCHANGED <<sdRun, sdTasks, sdStrong, sdSent, sdWorkers, sdDrains, sdChan>>
    /\ UNCHANGED <<sdHandles, sdFinal>>
    /\ UNCHANGED ShutdownOthers

\* refresher: the request resolves, with a hash or an error (blockhash.rs 70-73).
SdRefresherResolves ==
    /\ sdRefresher = "request"
    /\ sdRefresher' = "select"
    /\ UNCHANGED <<sdRun, sdTasks, sdStrong, sdSent, sdWorkers, sdDrains, sdChan>>
    /\ UNCHANGED <<sdHandles, sdFinal>>
    /\ UNCHANGED ShutdownOthers

\* refresher: `_ = shutdown.recv() => break` (blockhash.rs 75-77).
SdRefresherStops ==
    /\ sdRefresher = "select"
    /\ ListenerReady(sdSent)
    /\ sdRefresher' = "ended"
    /\ UNCHANGED <<sdRun, sdTasks, sdStrong, sdSent, sdWorkers, sdDrains, sdChan>>
    /\ UNCHANGED <<sdHandles, sdFinal>>
    /\ UNCHANGED ShutdownOthers

\* WsWorker::run reads a frame and handle_frame has a value for the tracker:
\* `sub.tx.send((sub.id, extracted)).await` (websocket.rs 184-186, 150).
SdWorkerFrame(w) ==
    /\ sdWorkers[w] = "select"
    /\ LET k == w[1]
           o == SendOutcome(sdChan[k], sdDrains[k] = "ended")
       IN  /\ sdChan' = IF o = "ok" THEN [sdChan EXCEPT ![k] = @ + 1] ELSE sdChan
           /\ sdWorkers' = IF o = "wait" THEN [sdWorkers EXCEPT ![w] = "send"]
                           ELSE sdWorkers
    /\ UNCHANGED <<sdRun, sdTasks, sdStrong, sdSent, sdRefresher, sdDrains>>
    /\ UNCHANGED <<sdHandles, sdFinal>>
    /\ UNCHANGED ShutdownOthers

\* The send handle_frame awaits resolves and run selects again.
SdWorkerSendCompletes(w) ==
    /\ sdWorkers[w] = "send"
    /\ LET k == w[1]
           o == SendOutcome(sdChan[k], sdDrains[k] = "ended")
       IN  /\ o # "wait"
           /\ sdChan' = IF o = "ok" THEN [sdChan EXCEPT ![k] = @ + 1] ELSE sdChan
    /\ sdWorkers' = [sdWorkers EXCEPT ![w] = "select"]
    /\ UNCHANGED <<sdRun, sdTasks, sdStrong, sdSent, sdRefresher, sdDrains>>
    /\ UNCHANGED <<sdHandles, sdFinal>>
    /\ UNCHANGED ShutdownOthers

\* WsWorker::run: ShutDownReceiver::recv gives None on the shutdown signal,
\* handle_subscription(None) closes the socket and returns false, run breaks
\* (websocket.rs 187-190, 157-163, 248-252).
SdWorkerStops(w) ==
    /\ sdWorkers[w] = "select"
    /\ ListenerReady(sdSent)
    /\ sdWorkers' = [sdWorkers EXCEPT ![w] = "ended"]
    /\ UNCHANGED <<sdRun, sdTasks, sdStrong, sdSent, sdRefresher, sdDrains, sdChan>>
    /\ UNCHANGED <<sdHandles, sdFinal>>
    /\ UNCHANGED ShutdownOthers

\* confirm_by_id / confirm_by_value: `Some(..) = self.rx.recv()`
\* (confirmation.rs 71-73, 89-91).
SdDrainRecv(k) ==
    /\ sdDrains[k] = "select"
    /\ sdChan[k] > 0
    /\ sdChan' = [sdChan EXCEPT ![k] = @ - 1]
    /\ UNCHANGED <<sdRun, sdTasks, sdStrong, sdSent, sdRefresher, sdWorkers, sdDrains>>
    /\ UNCHANGED <<sdHandles, sdFinal>>
    /\ UNCHANGED ShutdownOthers

\* confirm_by_id / confirm_by_value: `_ = self.shutdown.recv() => break`; the
\* task ends and its Receiver is dropped with what it holds
\* (confirmation.rs 74-76, 92-94).
SdDrainStops(k) ==
    /\ sdDrains[k] = "select"
    /\ ListenerReady(sdSent)
    /\ sdDrains' = [sdDrains EXCEPT ![k] = "ended"]
    /\ sdChan' = [sdChan EXCEPT ![k] = 0]
    /\ UNCHANGED <<sdRun, sdTasks, sdStrong, sdSent, sdRefresher, sdWorkers>>
    /\ sdHandles' = [sdHandles EXCEPT ![k] = RcDrop(@)]
    /\ UNCHANGED sdFinal
    /\ UNCHANGED ShutdownOthers

SdAllEnded ==
    /\ sdRefresher = "ended"
    /\ \A w \in SdWorkerIds : sdWorkers[w] = "ended"
    /\ \A k \in Kinds : sdDrains[k] = "ended"

\* A variant of LocalSetComplete that does not wait for the tasks.
LocalSetSkipped(running, ended) == TRUE

\* main: `rt.block_on(local)` returns when every task spawned on the
\* LocalSet has ended (main.rs 72).
LocalSetComplete(running, ended) == running = 0 /\ ended

\* finalize: `Rc::try_unwrap(db).unwrap()` gives the tracker when the strong
\* count is one and panics when it is not (runner.rs 318-320).
TryUnwrap(strong) == IF strong = 1 THEN "ok" ELSE "panic"

\* The engine thread after run: the LocalSet is driven to its end and
\* results.stats() finalizes every tracker (main.rs 71-73, runner.rs 326-340).
SdFinalize ==
    /\ sdRun = "returned"
    /\ sdFinal = "no"
    /\ LocalSetComplete(sdTasks, SdAllEnded)
    /\ sdFinal' = IF \A t \in Trackers : TryUnwrap(sdHandles[t]) = "ok"
                  THEN "ok" ELSE "panic"
    /\ UNCHANGED <<sdRun, sdTasks, sdStrong, sdSent, sdRefresher, sdWorkers,
                   sdDrains, sdChan, sdHandles>>
    /\ UNCHANGED ShutdownOthers

SdNext ==
    \/ SdSpawn
    \/ SdRunReturns
    \/ SdTaskEnds
    \/ SdRefresherTick
    \/ SdRefresherResolves
    \/ SdRefresherStops
    \/ \E w \in SdWorkerIds : SdWorkerFrame(w)
    \/ \E w \in SdWorkerIds : SdWorkerSendCompletes(w)
    \/ \E w \in SdWorkerIds : SdWorkerStops(w)
    \/ \E k \in Kinds : SdDrainRecv(k)
    \/ \E k \in Kinds : SdDrainStops(k)
    \/ SdFinalize

\* Every HTTP response resolves and every wait of a completion task ends, a
\* send that can resolve does, and a select whose shutdown branch is ready
\* again and again takes it (tokio::select! polls its branches in a random
\* order).
SdFairness ==
    /\ WF_vars(SdTaskEnds)
    /\ WF_vars(SdRefresherResolves)
    /\ SF_vars(SdRefresherStops)
    /\ \A w \in SdWorkerIds : WF_vars(SdWorkerSendCompletes(w))
    /\ \A w \in SdWorkerIds : SF_vars(SdWorkerStops(w))
    /\ \A k \in Kinds : SF_vars(SdDrainStops(k))


\* C21: once run has returned (the runner's shutdown handle dropped), the
\* completion tasks in flight end and drop theirs, and the refresher, every
\* WsWorker and both drain tasks terminate.
C21_BackgroundTasksTerminate ==
    (sdRun = "returned") ~> SdAllEnded

\* C21 witness: the last handle was dropped, the signal sent, and the refresher,
\* every worker and both drain tasks have ended.
C21_Witness ==
    /\ sdSent
    /\ SdAllEnded
    /\ sdTasks = 0

\* Claim C36: the shutdown signal is broadcast only once run has returned
\* (its loop over) and every completion task has ended.
C36_SignalAfterLoopAndTasks ==
    sdSent => (sdRun = "returned" /\ sdTasks = 0 /\ sdStrong = 0)

\* The signal has just been broadcast, run returned and no completion task
\* left, and the listeners have yet to take it.
C36_Witness ==
    /\ sdSent
    /\ sdRun = "returned"
    /\ sdTasks = 0
    /\ sdRefresher # "ended"
    /\ \A k \in Kinds : sdDrains[k] = "select"

\* Claim C40: when the results are finalized every tracker has one owner,
\* the drains and the completion tasks that held a handle having ended:
\* the unwrap of finalize does not fail.
C40_TrackersUniquelyOwned ==
    /\ sdFinal # "panic"
    /\ sdFinal = "ok" => \A t \in Trackers : sdHandles[t] = 1

\* The results were finalized: the last shutdown handle was dropped, and
\* the refresher and both drains, which held a tracker each, have ended.
C40_Witness ==
    /\ sdFinal = "ok"
    /\ sdStrong = 0
    /\ sdRefresher = "ended"
    /\ \A k \in Kinds : sdDrains[k] = "ended"

(***************************************************************************)
(* The request builders (requests.rs) and the payload of a transaction     *)
(* request (payload.rs).                                                   *)
(***************************************************************************)
\* The modes a child of a mixed builder is made for: two that
\* make_mode_provider gives a TransactionRequestBuilder, one RPC mode.
TpsModes == {"SimpleByteSet", "ReadWrite"}

RpsModes == {"GetBalance"}

ChildModes == TpsModes \cup RpsModes

\* make_builder: the accounts derived for the engine, handed to every builder.
Pdas == <<"pda1", "pda2">>

\* payload::transaction(transaction, check): the skipPreflight it formats.
TransactionPayload(check) ==
    [method |-> "sendTransaction", skipPreflight |-> ~check]

\* The build of a child: TransactionRequestBuilder::build passes `false` to
\* payload::transaction; the RPC builders format their own method.
ChildBuild(mode) ==
    IF mode \in TpsModes
    THEN TransactionPayload(FALSE)
    ELSE [method |-> "getBalance", skipPreflight |-> FALSE]

\* accounts() of a child: TransactionRequestBuilder gives its provider's
\* accounts, the RPC builders keep the trait's default, vec![], and so does
\* the nested builder, whose first child is an RPC builder.
ChildAccounts(mode) == IF mode \in TpsModes THEN Pdas ELSE <<>>

\* MixedRequestBuilder::accounts: providers.first().map(|p| p.accounts()).
MixedAccounts(providers) ==
    IF providers = <<>> THEN <<>> ELSE ChildAccounts(providers[1])

NoBuild == [method |-> "", skipPreflight |-> FALSE]

\* make_mode_provider on BenchMode::Mixed builds each child with
\* make_mode_provider again: a child may itself be a MixedRequestBuilder.
\* The nested builder of the model has these two children.
NestedProviders == <<"GetBalance", "SimpleByteSet">>

ProviderLists ==
    UNION {[1..n -> ChildModes \cup {"Mixed"}] : n \in 1..MaxChildren}

\* The fields of a child builder: `signature` of a TransactionRequestBuilder
\* (0 is None), `last_name` and `last_index` of a MixedRequestBuilder (the
\* index counts from 1 here; last_name starts "", last_index at the first
\* child); `sig` of a nested builder is the `signature` of its transaction
\* child.
NewChild == [name |-> "", last |-> 1, sig |-> 0]

\* name() of the leaf builders: the RPC builders return their mode's name,
\* TransactionRequestBuilder its provider's.
LeafName(mode) == mode

\* signature() of the leaf builders: TransactionRequestBuilder returns its
\* field, the RPC builders keep the trait's default, None.
LeafSignature(mode, sig) == IF mode \in TpsModes THEN sig ELSE 0

\* extractor() of the leaf builders.
LeafExtractor(mode) ==
    IF mode \in TpsModes THEN "signature_response_extractor" ELSE "value_extractor"

\* MixedRequestBuilder::extractor: the extractor of the first child whose
\* name() is last_name, value_extractor if there is none.
MixedExtractor(names, extractors, last_name) ==
    LET found == {k \in DOMAIN names : names[k] = last_name} IN
        IF found = {}
        THEN "value_extractor"
        ELSE extractors[CHOOSE k \in found : \A o \in found : k <= o]

\* name(), signature() and extractor() of a child in its state st.
ChildName(mode, st) == IF mode = "Mixed" THEN st.name ELSE LeafName(mode)

ChildSignature(mode, st) ==
    IF mode = "Mixed"
    THEN LeafSignature(NestedProviders[st.last], st.sig)
    ELSE LeafSignature(mode, st.sig)

ChildExtractor(mode, st) ==
    IF mode = "Mixed"
    THEN MixedExtractor([k \in DOMAIN NestedProviders |-> LeafName(NestedProviders[k])],
                        [k \in DOMAIN NestedProviders |-> LeafExtractor(NestedProviders[k])],
                        st.name)
    ELSE LeafExtractor(mode)

\* build of a leaf in state st with the id `id`: TransactionRequestBuilder
\* replaces its signature with that of the transaction generated for the id
\* (the model names that signature by the id).
LeafBuilt(mode, st, id) ==
    IF mode \in TpsModes THEN [st EXCEPT !.sig = id] ELSE st

\* build of a child: a nested MixedRequestBuilder samples `inner`, records
\* the name and the index of that child, and has it build.
ChildBuilt(mode, st, id, inner) ==
    IF mode = "Mixed"
    THEN [LeafBuilt(NestedProviders[inner], st, id)
             EXCEPT !.name = LeafName(NestedProviders[inner]), !.last = inner]
    ELSE LeafBuilt(mode, st, id)

\* The mode of the leaf that builds the request.
BuildingLeaf(mode, inner) == IF mode = "Mixed" THEN NestedProviders[inner] ELSE mode

\* name(), signature() and extractor() of the engine's builder.
MixedName == rqName

MixedSignature == ChildSignature(rqProviders[rqLast], rqChildren[rqLast])

RqExtractor ==
    MixedExtractor([k \in DOMAIN rqProviders |-> ChildName(rqProviders[k], rqChildren[k])],
                   [k \in DOMAIN rqProviders |-> ChildExtractor(rqProviders[k], rqChildren[k])],
                   rqName)

RqInit ==
    /\ rqPreflight \in BOOLEAN
    /\ rqProviders \in ProviderLists
    /\ rqLast = 0
    /\ rqRequest = NoBuild
    /\ rqAccounts = <<"none">>
    /\ rqName = ""
    /\ rqChildren = [k \in DOMAIN rqProviders |-> NewChild]
    /\ rqBuilds = 0
    /\ rqSigBuilt = 0

RqIdle ==
    /\ rqPreflight = FALSE
    /\ rqProviders = <<>>
    /\ rqLast = 0
    /\ rqRequest = NoBuild
    /\ rqAccounts = <<"none">>
    /\ rqName = ""
    /\ rqChildren = <<>>
    /\ rqBuilds = 0
    /\ rqSigBuilt = 0

\* MixedRequestBuilder::build: a child is sampled, its name() is recorded
\* as last_name, its index as last_index, and then it builds the request.
RqBuild ==
    \E index \in DOMAIN rqProviders, inner \in DOMAIN NestedProviders :
        LET mode == rqProviders[index]
            leaf == BuildingLeaf(mode, inner)
            id == rqBuilds + 1
        IN
        /\ rqBuilds < MaxBuilds
        /\ rqBuilds' = id
        /\ rqName' = ChildName(mode, rqChildren[index])
        /\ rqLast' = index
        /\ rqChildren' = [rqChildren EXCEPT ![index] = ChildBuilt(mode, @, id, inner)]
        /\ rqRequest' = ChildBuild(leaf)
        /\ rqSigBuilt' = IF leaf \in TpsModes THEN id ELSE 0
        /\ UNCHANGED <<rqPreflight, rqProviders, rqAccounts>>
        /\ UNCHANGED RequestOthers

\* BenchRunner::new: `let accounts = request_builder.accounts()`.
RqAccounts ==
    /\ rqAccounts' = MixedAccounts(rqProviders)
    /\ UNCHANGED <<rqPreflight, rqProviders, rqLast, rqRequest,
                   rqName, rqChildren, rqBuilds, rqSigBuilt>>
    /\ UNCHANGED RequestOthers

RqNext ==
    \/ RqBuild
    \/ RqAccounts

\* C22: a sendTransaction request carries skipPreflight = ~preflight_check.
C22_SkipPreflightNegatesCheck ==
    rqRequest.method = "sendTransaction" => rqRequest.skipPreflight = ~rqPreflight

\* The addresses of a Vec<Pubkey>.
Addresses(v) == {v[i] : i \in DOMAIN v}

\* C23: accounts() of the mixed builder holds exactly the addresses that
\* accounts() of its children hold, whatever their order.
C23_MixedAccountsIsUnion ==
    rqAccounts # <<"none">> =>
        Addresses(rqAccounts)
            = UNION {Addresses(ChildAccounts(rqProviders[k])) : k \in DOMAIN rqProviders}

\* Claim C32: after build was delegated to child i, name(), signature() and
\* extractor() of the mixed builder are those of child i, and the signature
\* is None when the request built is an RPC call and that of the transaction
\* just built otherwise.
C32_MixedReturnsChildsAnswers ==
    rqLast # 0 =>
        /\ MixedName = ChildName(rqProviders[rqLast], rqChildren[rqLast])
        /\ MixedSignature = ChildSignature(rqProviders[rqLast], rqChildren[rqLast])
        /\ MixedSignature = rqSigBuilt
        /\ RqExtractor = ChildExtractor(rqProviders[rqLast], rqChildren[rqLast])

(***************************************************************************)
(* ConnectionPool and ConnectionGuard (http.rs).                           *)
(***************************************************************************)
Channels == 1..hpCount

GuardLoses(ready, con) == ready

\* Drop for ConnectionGuard: `self.pool.ready.push_back(con)`.
GuardDrop(ready, con) == Append(ready, con)

HpInit ==
    /\ hpCount \in 0..MaxHttp
    /\ hpReady = [i \in 1..hpCount |-> i]
    /\ hpBusy = <<>>
    /\ hpGuard = <<>>
    /\ hpSent = [c \in 1..hpCount |-> 0]
    /\ hpPanicked = FALSE
    /\ hpInflight = [c \in 1..hpCount |-> 0]
    /\ hpPermits \in 1..MaxConc
    /\ hpUsed = FALSE

HpIdle ==
    /\ hpCount = 0
    /\ hpReady = <<>>
    /\ hpBusy = <<>>
    /\ hpGuard = <<>>
    /\ hpSent = <<>>
    /\ hpPanicked = FALSE
    /\ hpInflight = <<>>
    /\ hpPermits = 0
    /\ hpUsed = FALSE

\* ConnectionPool::connection. It borrows the pool mutably for the life of the
\* guard it returns, so there is no guard when it is called. `readyOk` is the
\* outcome of `con.ready().await` on a connection taken from busy.
HpConnection(readyOk) ==
    /\ ~hpPanicked
    /\ hpGuard = <<>>
    /\ IF hpReady # <<>>
       THEN /\ hpGuard' = <<Head(hpReady)>>
            /\ hpReady' = Tail(hpReady)
            /\ UNCHANGED <<hpBusy, hpPanicked>>
       ELSE IF hpBusy = <<>>
       THEN /\ hpPanicked' = TRUE
            /\ UNCHANGED <<hpReady, hpBusy, hpGuard>>
       ELSE /\ hpBusy' = Tail(hpBusy)
            /\ hpGuard' = IF readyOk THEN <<Head(hpBusy)>> ELSE <<>>
            /\ UNCHANGED <<hpReady, hpPanicked>>
    /\ hpUsed' = FALSE
    /\ UNCHANGED <<hpCount, hpSent, hpInflight, hpPermits>>
    /\ UNCHANGED HttpOthers

\* step: tick returns a permit (runner.rs 207) and the request goes out
\* through the guard, `con.send(request, extractor)` (runner.rs 221), once
\* for each guard.
HpSend ==
    /\ hpGuard # <<>>
    /\ ~hpUsed
    /\ hpPermits > 0
    /\ hpSent[hpGuard[1]] < MaxSends
    /\ hpSent' = [hpSent EXCEPT ![hpGuard[1]] = @ + 1]
    /\ hpInflight' = [hpInflight EXCEPT ![hpGuard[1]] = @ + 1]
    /\ hpPermits' = hpPermits - 1
    /\ hpUsed' = TRUE
    /\ UNCHANGED <<hpCount, hpReady, hpBusy, hpGuard, hpPanicked>>
    /\ UNCHANGED HttpOthers

\* The completion task: `response.resolve().await` returns and the permit
\* is dropped, at once or after the waits for the confirmations
\* (runner.rs 234-255).
HpResponse(c) ==
    /\ hpInflight[c] > 0
    /\ hpInflight' = [hpInflight EXCEPT ![c] = @ - 1]
    /\ hpPermits' = hpPermits + 1
    /\ UNCHANGED <<hpCount, hpReady, hpBusy, hpGuard, hpSent, hpPanicked, hpUsed>>
    /\ UNCHANGED HttpOthers

\* step: `drop(con)` (runner.rs 222).
HpGuardDropped ==
    /\ hpGuard # <<>>
    /\ hpReady' = GuardDrop(hpReady, hpGuard[1])
    /\ hpGuard' = <<>>
    /\ UNCHANGED <<hpCount, hpBusy, hpSent, hpPanicked, hpInflight, hpPermits, hpUsed>>
    /\ UNCHANGED HttpOthers

HpNext ==
    \/ \E readyOk \in BOOLEAN : HpConnection(readyOk)
    \/ HpSend
    \/ HpGuardDropped
    \/ \E c \in Channels : HpResponse(c)

\* Where the channels are: the two queues, then the guard.
HpPlaces == hpReady \o hpBusy \o hpGuard

\* Every channel of the pool is in exactly one place.
HpAccounted ==
    /\ Len(HpPlaces) = hpCount
    /\ \A c \in Channels : \E i \in DOMAIN HpPlaces : HpPlaces[i] = c

\* C24: at any time each of the N channels is in ready, in busy or in the one
\* guard, in one place only, and the drop of a guard puts its channel at the
\* tail of ready.
C24_PoolAccountsForChannels ==
    /\ []HpAccounted
    /\ [][(hpGuard # <<>> /\ hpGuard' = <<>>)
            => hpReady' = Append(hpReady, hpGuard[1])]_vars

\* C24 witness: a pool of several channels whose first channel was taken, used
\* and given back: it is at the tail of ready, the second is in a guard.
C24_Witness ==
    /\ hpCount >= 3
    /\ hpGuard = <<2>>
    /\ hpSent[1] = 1
    /\ hpReady = <<3, 1>>

\* Claim C38: a request is sent on a channel connection() returned only
\* when no earlier request on that channel still awaits its response.
C38_ChannelHandedOutIsFree ==
    [][(hpSent' # hpSent) => hpInflight[hpGuard[1]] = 0]_vars

(***************************************************************************)
(* WebsocketPool::connection (websocket.rs 227-231).                       *)
(***************************************************************************)
NextStays(next, len) == next

\* `self.next = (self.next + 1) % self.connections.len()`
NextIndex(next, len) == (next + 1) % len

WpInit ==
    /\ wpCount \in 0..MaxWsPool
    /\ wpNext = 0
    /\ wpReturned = <<>>
    /\ wpAlive = 0..(wpCount - 1)
    /\ wpPanicked = FALSE

WpIdle ==
    /\ wpCount = 0
    /\ wpNext = 0
    /\ wpReturned = <<>>
    /\ wpAlive = {}
    /\ wpPanicked = FALSE

\* connection(): with no connection the remainder by zero panics.
WpConnection ==
    /\ ~wpPanicked
    /\ Len(wpReturned) < MaxPoolCalls
    /\ IF wpCount = 0
       THEN /\ wpPanicked' = TRUE
            /\ UNCHANGED <<wpNext, wpReturned>>
       ELSE /\ wpNext' = NextIndex(wpNext, wpCount)
            /\ wpReturned' = Append(wpReturned, wpNext)
            /\ UNCHANGED wpPanicked
    /\ UNCHANGED <<wpCount, wpAlive>>
    /\ UNCHANGED WsPoolOthers

\* The WsWorker of a connection ends (WsWorker::run breaks or panics); the pool
\* keeps its Sender.
WpWorkerEnds(i) ==
    /\ i \in wpAlive
    /\ wpAlive' = wpAlive \ {i}
    /\ UNCHANGED <<wpCount, wpNext, wpReturned, wpPanicked>>
    /\ UNCHANGED WsPoolOthers

WpNext ==
    \/ WpConnection
    \/ \E i \in 0..(MaxWsPool - 1) : WpWorkerEnds(i)

\* C25: the k-th call returns socket (k - 1) mod W, and any W consecutive calls
\* return every socket once.
C25_RoundRobin ==
    /\ \A k \in DOMAIN wpReturned : wpReturned[k] = (k - 1) % wpCount
    /\ \A k \in DOMAIN wpReturned :
           k + wpCount - 1 <= Len(wpReturned) =>
               {wpReturned[j] : j \in k..(k + wpCount - 1)} = 0..(wpCount - 1)

\* C25 witness: a pool of three sockets has gone round more than once, one of
\* its workers having ended meanwhile.
C25_Witness ==
    /\ wpCount = 3
    /\ Len(wpReturned) >= 5
    /\ wpReturned[4] = 0
    /\ wpAlive # 0..2

(***************************************************************************)
(* BlockHashProvider (blockhash.rs). Hashes are numbered in the order the  *)
(* validator produces them.                                                *)
(***************************************************************************)
RefreshedOrCleared(stored, outcome, h) == IF outcome = "ok" THEN h ELSE 0

\* refresher: `Ok(h) => { hash.replace(h); }`, `Err(err) => tracing::warn!(..)`.
Refreshed(stored, outcome, h) == IF outcome = "ok" THEN h ELSE stored

\* new: the first request succeeded (else new fails and there is no provider)
\* and the refresher is spawned.
BhInit ==
    /\ bhChain = 1
    /\ bhStored = bhChain
    /\ bhLastGood = bhChain
    /\ bhPc = "select"
    /\ bhOutcome = "none"
    /\ bhRequests = 0
    /\ bhRead = 0
    /\ bhReads = 0

BhIdle ==
    /\ bhChain = 0
    /\ bhStored = 0
    /\ bhLastGood = 0
    /\ bhPc = "ended"
    /\ bhOutcome = "none"
    /\ bhRequests = 0
    /\ bhRead = 0
    /\ bhReads = 0

\* The validator produces a new blockhash.
BhChainAdvances ==
    /\ bhChain < MaxHash
    /\ bhChain' = bhChain + 1
    /\ UNCHANGED <<bhStored, bhPc, bhOutcome, bhRequests, bhRead, bhReads, bhLastGood>>
    /\ UNCHANGED BlockhashOthers

\* refresher: `_ = interval.tick()` and the request is sent.
BhTick ==
    /\ bhPc = "select"
    /\ bhRequests < MaxRefresh
    /\ bhPc' = "request"
    /\ bhRequests' = bhRequests + 1
    /\ UNCHANGED <<bhStored, bhOutcome, bhRead, bhReads, bhChain, bhLastGood>>
    /\ UNCHANGED BlockhashOthers

\* refresher: request returns; an Err is a transport error, a response that
\* does not parse or one with no blockhash in it.
BhResolves(outcome) ==
    /\ bhPc = "request"
    /\ bhPc' = "select"
    /\ bhOutcome' = outcome
    /\ bhStored' = Refreshed(bhStored, outcome, bhChain)
    /\ bhLastGood' = IF outcome = "ok" THEN bhChain ELSE bhLastGood
    /\ UNCHANGED <<bhRequests, bhRead, bhReads, bhChain>>
    /\ UNCHANGED BlockhashOthers

\* refresher: `_ = shutdown.recv() => break`.
BhStops ==
    /\ bhPc = "select"
    /\ bhPc' = "ended"
    /\ UNCHANGED <<bhStored, bhOutcome, bhRequests, bhRead, bhReads, bhChain, bhLastGood>>
    /\ UNCHANGED BlockhashOthers

\* hash(): `*self.hash.borrow()`.
BhHash ==
    /\ bhReads < MaxReads
    /\ bhRead' = bhStored
    /\ bhReads' = bhReads + 1
    /\ UNCHANGED <<bhStored, bhPc, bhOutcome, bhRequests, bhChain, bhLastGood>>
    /\ UNCHANGED BlockhashOthers

BhNext ==
    \/ BhChainAdvances
    \/ BhTick
    \/ \E outcome \in {"ok", "err"} : BhResolves(outcome)
    \/ BhStops
    \/ BhHash

\* C26: a failed refresh leaves the stored blockhash as it was and the
\* refresher back at its select, where the next tick sends a request again; a
\* call of hash() returns the hash of the most recent successful fetch and
\* sends nothing.
C26_FailedRefreshKeepsHash ==
    /\ [][(bhPc = "request" /\ bhOutcome' = "err" /\ bhPc' # "request")
            => (bhStored' = bhStored /\ bhPc' = "select")]_vars
    /\ [][bhReads' # bhReads
            => (bhRead' = bhLastGood /\ bhRequests' = bhRequests /\ bhPc' = bhPc)]_vars

\* C26 witness: a refresh succeeded with a new hash, a later one failed after
\* the validator had moved on, and hash() was called after that.
C26_Witness ==
    /\ bhOutcome = "err"
    /\ bhStored = 2
    /\ bhChain = 3
    /\ bhRead = 2
    /\ bhRequests >= 2

(***************************************************************************)
(* StreamingStats::push (core/src/stats.rs 50-70) and the samples of a     *)
(* confirmation tracker (confirmation.rs 138-147).                         *)
(***************************************************************************)
SampleValues == {10, 20}

\* The reservoir after push(value), j being the draw of
\* `self.rng.gen_range(0..self.count)` on the count already incremented; the
\* Vec is indexed from 0.
ReservoirPush(reservoir, size, value, j) ==
    IF Len(reservoir) < size
    THEN Append(reservoir, value)
    ELSE IF j < size
    THEN [reservoir EXCEPT ![j + 1] = value]
    ELSE reservoir

RsInit ==
    /\ rsCount = 0
    /\ rsReservoir = <<>>
    /\ rsTracker = NewConfirmations
    /\ rsNextId = 0

RsIdle ==
    /\ rsCount = 0
    /\ rsReservoir = <<>>
    /\ rsTracker = <<>>
    /\ rsNextId = 0

\* StreamingStats::push.
RsPush(value) ==
    /\ rsCount < MaxPush
    /\ \E j \in 0..rsCount :
           /\ rsCount' = rsCount + 1
           /\ rsReservoir' = ReservoirPush(rsReservoir, MaxReservoir, value, j)
    /\ UNCHANGED <<rsTracker, rsNextId>>
    /\ UNCHANGED ReservoirOthers

\* Confirmations::track of the next request.
RsTrack ==
    /\ rsNextId < MaxPush
    /\ rsTracker' = Track(rsTracker, rsNextId, FALSE)
    /\ rsNextId' = rsNextId + 1
    /\ UNCHANGED <<rsCount, rsReservoir>>
    /\ UNCHANGED ReservoirOthers

\* Confirmations::observe of a tracked request:
\* `self.observations.push(took)`.
RsObserve(id) ==
    /\ id \in DOMAIN rsTracker.pending
    /\ rsTracker' = Observe(rsTracker, id, TRUE)
    /\ UNCHANGED <<rsCount, rsReservoir, rsNextId>>
    /\ UNCHANGED ReservoirOthers

RsNext ==
    \/ \E value \in SampleValues : RsPush(value)
    \/ RsTrack
    \/ \E id \in 0..(MaxPush - 1) : RsObserve(id)

\* C27: a stream never stores more than R samples, whatever was pushed to it,
\* and neither does a confirmation tracker.
C27_SamplesBounded ==
    /\ Len(rsReservoir) <= MaxReservoir
    /\ BagCardinality(rsTracker.observations) <= MaxReservoir

(***************************************************************************)
(* Url::address (core/src/types.rs 106-111).                               *)
(***************************************************************************)
\* u16::MAX
U16Max == 65535

\* `.unwrap_or(80)`
DefaultPort == 80

\* `p + ws as u16` on u16: a debug build panics on overflow, a release build
\* wraps.
AddU16(p, q, build) ==
    IF p + q <= U16Max
    THEN p + q
    ELSE IF build = "debug" THEN Panic ELSE (p + q) % (U16Max + 1)

BoolAsU16(b) == IF b THEN 1 ELSE 0

\* The port address formats:
\* `self.0.port_u16().map(|p| p + ws as u16).unwrap_or(80)`.
AddressPort(port, ws, build) ==
    IF port = None THEN DefaultPort ELSE AddU16(port, BoolAsU16(ws), build)

\* address(ws): `format!("{}:{}", host, port)`, or a panic.
Address(host, port, ws, build) ==
    LET p == AddressPort(port, ws, build)
    IN  IF p = Panic THEN <<"panic">> ELSE <<host, p>>

UrlHosts == {"localhost", "10.0.0.1"}

UrlPorts == {None, 1, 79, 80, 443, 8899, 65534, 65535}

UrlInit ==
    /\ urlHost \in UrlHosts
    /\ urlPort \in UrlPorts
    /\ urlBuild \in {"debug", "release"}
    /\ urlHttp = <<>>
    /\ urlWs = <<>>

UrlIdle ==
    /\ urlHost = ""
    /\ urlPort = None
    /\ urlBuild = "release"
    /\ urlHttp = <<>>
    /\ urlWs = <<>>

\* Connection::new: `TcpStream::connect(url.address(false))` (http.rs 135).
UrlHttpAddress ==
    /\ urlHttp' = Address(urlHost, urlPort, FALSE, urlBuild)
    /\ UNCHANGED <<urlHost, urlPort, urlBuild, urlWs>>
    /\ UNCHANGED UrlOthers

\* WsWorker::init: `TcpStream::connect(url.address(true))` (websocket.rs 80).
UrlWsAddress ==
    /\ urlWs' = Address(urlHost, urlPort, TRUE, urlBuild)
    /\ UNCHANGED <<urlHost, urlPort, urlBuild, urlHttp>>
    /\ UNCHANGED UrlOthers

UrlNext ==
    \/ UrlHttpAddress
    \/ UrlWsAddress

\* C28: the WebSocket address of an endpoint is the host of its HTTP address
\* with the HTTP port plus one, whether the URL names its port or not.
C28_WsPortIsHttpPortPlusOne ==
    (urlHttp # <<>> /\ urlWs # <<>>) =>
        /\ Len(urlHttp) = 2
        /\ urlWs = <<urlHttp[1], urlHttp[2] + 1>>

(***************************************************************************)
(* SpecOrder: BenchRunner::step for transactions, with the tasks that run  *)
(* while it is suspended (runner.rs:203-302, websocket.rs, confirmation.rs).*)
(* Every task runs on the LocalSet of one current-thread runtime            *)
(* (main.rs:62-70): the engine runs from one pending await to the next      *)
(* without interruption, the other tasks run while it is suspended.         *)
(***************************************************************************)
OrderIds == 1..MaxOrder

\* WebsocketPool::connect: `mpsc::channel(1)` (websocket.rs:91).
InboxCapacity == 1

\* subscribe_if_needed, lines 279-299, once the subscription is in the
\* channel: the trackers the id is tracked in.
TrackedKinds(c) ==
    {k \in Kinds : (k = "sig" /\ c.subscribe_to_signatures)
                   \/ (k = "acct" /\ c.subscribe_to_accounts)}

\* Confirmations::observe (confirmation.rs:138-147): the id is looked up in
\* pending, and the confirmation is dropped when it is not there.
ObservedPending(pending, kind, id) == <<kind, id>> \in pending

OdInit ==
    /\ odCfg \in [subscribe_to_signatures : BOOLEAN, subscribe_to_accounts : BOOLEAN]
    /\ odPc = "step"
    /\ odId = 1
    /\ odInbox = <<>>
    /\ odHttp = [id \in OrderIds |-> "none"]
    /\ odSubscribed = {}
    /\ odNotes = {}
    /\ odPending = {}
    /\ odObserved = {}
    /\ odDiscarded = {}

OdIdle ==
    /\ odCfg = [subscribe_to_signatures |-> FALSE, subscribe_to_accounts |-> FALSE]
    /\ odPc = "done"
    /\ odId = 1
    /\ odInbox = <<>>
    /\ odHttp = [id \in OrderIds |-> "none"]
    /\ odSubscribed = {}
    /\ odNotes = {}
    /\ odPending = {}
    /\ odObserved = {}
    /\ odDiscarded = {}

\* subscribe_if_needed from the completion of `con.send(sub)` on, and the
\* rest of step: the subscription is in the channel, the id is tracked, the
\* completion task is spawned, and run goes to its next iteration.
OdTrack ==
    /\ odInbox' = IF odCfg.subscribe_to_signatures THEN Append(odInbox, odId) ELSE odInbox
    /\ odPending' = odPending \cup {<<k, odId>> : k \in TrackedKinds(odCfg)}
    /\ odPc' = IF odId < MaxOrder THEN "step" ELSE "done"
    /\ odId' = IF odId < MaxOrder THEN odId + 1 ELSE odId

\* step, lines 205-224: the request is built and handed to the connection
\* (con.send, line 221); then subscribe_if_needed sends the signature
\* subscription (line 277), which suspends the engine when the channel of
\* the worker is full, and goes on to track the id when it is not.
OdStep ==
    /\ odPc = "step"
    /\ odHttp' = [odHttp EXCEPT ![odId] = "queued"]
    /\ IF odCfg.subscribe_to_signatures /\ Len(odInbox) >= InboxCapacity
       THEN /\ odPc' = "sending"
            /\ UNCHANGED <<odInbox, odPending, odId>>
       ELSE OdTrack
    /\ UNCHANGED <<odCfg, odSubscribed, odNotes, odObserved, odDiscarded>>
    /\ UNCHANGED OrderOthers

\* `con.send(sub).await` completes: the channel has room again.
OdSendCompletes ==
    /\ odPc = "sending"
    /\ Len(odInbox) < InboxCapacity
    /\ OdTrack
    /\ UNCHANGED <<odCfg, odHttp, odSubscribed, odNotes, odObserved, odDiscarded>>
    /\ UNCHANGED OrderOthers

\* WebsocketWorker::run and handle_subscription: the worker takes the
\* subscription off its channel and writes it to the server.
OdWorkerTakes ==
    /\ odInbox # <<>>
    /\ odInbox' = Tail(odInbox)
    /\ odSubscribed' = odSubscribed \cup {Head(odInbox)}
    /\ UNCHANGED <<odCfg, odPc, odId, odHttp, odNotes, odPending, odObserved, odDiscarded>>
    /\ UNCHANGED OrderOthers

\* The connection task spawned by Connection::new (http.rs:143) writes the
\* request it was handed.
OdHttpWrites(id) ==
    /\ odHttp[id] = "queued"
    /\ odHttp' = [odHttp EXCEPT ![id] = "written"]
    /\ UNCHANGED <<odCfg, odPc, odId, odInbox, odSubscribed, odNotes,
                   odPending, odObserved, odDiscarded>>
    /\ UNCHANGED OrderOthers

\* The server executes the transaction: the account it writes is one the
\* engine subscribed to in BenchRunner::new (runner.rs:133-156), so the
\* server emits the account notification that carries the id.
OdExecutes(id) ==
    /\ odHttp[id] = "written"
    /\ odHttp' = [odHttp EXCEPT ![id] = "executed"]
    /\ odNotes' = IF odCfg.subscribe_to_accounts
                  THEN odNotes \cup {<<"acct", id>>} ELSE odNotes
    /\ UNCHANGED <<odCfg, odPc, odId, odInbox, odSubscribed, odPending,
                   odObserved, odDiscarded>>
    /\ UNCHANGED OrderOthers

\* The server emits the signature notification of an executed transaction
\* whose subscription it has.
OdSignatureNotified(id) ==
    /\ odHttp[id] = "executed"
    /\ id \in odSubscribed
    /\ odSubscribed' = odSubscribed \ {id}
    /\ odNotes' = odNotes \cup {<<"sig", id>>}
    /\ UNCHANGED <<odCfg, odPc, odId, odInbox, odHttp, odPending, odObserved, odDiscarded>>
    /\ UNCHANGED OrderOthers

\* The worker reads the notification and sends it on Subscription.tx; the
\* drain (confirm_by_id, confirm_by_value) receives it and calls observe.
OdObserve(kind, id) ==
    /\ <<kind, id>> \in odNotes
    /\ odNotes' = odNotes \ {<<kind, id>>}
    /\ IF ObservedPending(odPending, kind, id)
       THEN /\ odPending' = odPending \ {<<kind, id>>}
            /\ odObserved' = odObserved \cup {<<kind, id>>}
            /\ UNCHANGED odDiscarded
       ELSE /\ odDiscarded' = odDiscarded \cup {<<kind, id>>}
            /\ UNCHANGED <<odPending, odObserved>>
    /\ UNCHANGED <<odCfg, odPc, odId, odInbox, odHttp, odSubscribed>>
    /\ UNCHANGED OrderOthers

OdNext ==
    \/ OdStep
    \/ OdSendCompletes
    \/ OdWorkerTakes
    \/ \E id \in OrderIds : OdHttpWrites(id)
    \/ \E id \in OrderIds : OdExecutes(id)
    \/ \E id \in OrderIds : OdSignatureNotified(id)
    \/ \E kind \in Kinds, id \in OrderIds : OdObserve(kind, id)

\* Claim C35: no confirmation that carries the id of a transaction reaches
\* observe before the id is tracked: the drain discards none as unknown.
C35_TrackedBeforeObserved == odDiscarded = {}

\* The part of C35 that concerns the signature tracker.
OdSignaturesTrackedBeforeObserved ==
    \A id \in OrderIds : <<"sig", id>> \notin odDiscarded

(***************************************************************************)
(* SpecBuffer: handle_frame and handle_subscription (websocket.rs 108-175)  *)
(* against a server that names the subscription each notification is for   *)
(* and may give the remote id of a subscription it has ended to a later    *)
(* one.                                                                    *)
(***************************************************************************)
BfInit ==
    /\ bfOneshot \in BOOLEAN
    /\ bfSubscriptions = <<>>
    /\ bfPending = <<>>
    /\ bfBuffered = <<>>
    /\ bfOut = <<>>
    /\ bfFrames = 0
    /\ bfSubs = 0
    /\ bfAssigned = <<>>
    /\ bfAcked = {}
    /\ bfOwner = <<>>
    /\ bfEnded = {}

BfIdle ==
    /\ bfOneshot = FALSE
    /\ bfSubscriptions = <<>>
    /\ bfPending = <<>>
    /\ bfBuffered = <<>>
    /\ bfOut = <<>>
    /\ bfFrames = 0
    /\ bfSubs = 0
    /\ bfAssigned = <<>>
    /\ bfAcked = {}
    /\ bfOwner = <<>>
    /\ bfEnded = {}

\* handle_subscription: the request is written and the Subscription goes to
\* pending (lines 164-174). The server receives the request and gives it a
\* remote id no subscription it still serves has.
BfSubscribe ==
    /\ bfSubs < MaxSub
    /\ \E remote \in Remotes :
        /\ \A id \in (DOMAIN bfAssigned) \ bfEnded : bfAssigned[id] # remote
        /\ bfAssigned' = MapInsert(bfAssigned, bfSubs, remote)
    /\ bfPending' = MapInsert(bfPending, bfSubs, [id |-> bfSubs, oneshot |-> bfOneshot])
    /\ bfSubs' = bfSubs + 1
    /\ UNCHANGED <<bfOneshot, bfSubscriptions, bfBuffered, bfOut, bfFrames,
                   bfAcked, bfOwner, bfEnded>>
    /\ UNCHANGED BufferOthers

\* run reads a frame and handle_frame handles it; the Receiver of
\* Subscription.tx is open.
BfRead(frame) ==
    /\ bfFrames < MaxFrames
    /\ LET w == WsState(bfSubscriptions, bfPending, bfBuffered, bfOut)
           w2 == HandleFrameOf(w, frame, TRUE)
       IN
        /\ bfSubscriptions' = w2.subscriptions
        /\ bfPending' = w2.pending
        /\ bfBuffered' = w2.buffered
        /\ bfOut' = w2.out
    /\ bfFrames' = bfFrames + 1
    /\ UNCHANGED <<bfOneshot, bfSubs, bfAssigned, bfEnded>>

\* The frame is the server's ack of a request, sent once.
BfReadAck(id) ==
    /\ id \in (DOMAIN bfAssigned) \ bfAcked
    /\ BfRead(AckFrame(id, bfAssigned[id], bfFrames))
    /\ bfAcked' = bfAcked \cup {id}
    /\ UNCHANGED bfOwner
    /\ UNCHANGED BufferOthers

\* The frame is a notification the server sends for a subscription it
\* serves, under the remote id it gave it: before or after the ack, and any
\* number of times.
BfReadNotification(id) ==
    /\ id \in (DOMAIN bfAssigned) \ bfEnded
    /\ BfRead(NotifFrame(bfAssigned[id], TRUE, bfFrames))
    /\ bfOwner' = MapInsert(bfOwner, bfFrames, id)
    /\ UNCHANGED bfAcked
    /\ UNCHANGED BufferOthers

\* The server ends a one-shot subscription it has acknowledged and
\* notified: its remote id is free again.
BfServerEnds(id) ==
    /\ bfOneshot
    /\ id \in bfAcked \ bfEnded
    /\ \E seq \in DOMAIN bfOwner : bfOwner[seq] = id
    /\ bfEnded' = bfEnded \cup {id}
    /\ UNCHANGED <<bfOneshot, bfSubscriptions, bfPending, bfBuffered, bfOut,
                   bfFrames, bfSubs, bfAssigned, bfAcked, bfOwner>>
    /\ UNCHANGED BufferOthers

BfNext ==
    \/ BfSubscribe
    \/ \E id \in Locals : BfReadAck(id)
    \/ \E id \in Locals : BfReadNotification(id)
    \/ \E id \in Locals : BfServerEnds(id)

\* Claim C39: a value delivered under a local id comes from a notification
\* the server sent for that subscription, also when the server gives the
\* remote id of an earlier subscription to a later one.
C39_DeliveredValueIsOwn ==
    \A k \in DOMAIN bfOut : bfOwner[bfOut[k].seq] = bfOut[k].id

\* The remote ids the server gave are all different.
BfRemotesDistinct ==
    \A a, b \in DOMAIN bfAssigned : a # b => bfAssigned[a] # bfAssigned[b]

\* What C39 says holds as long as the server has reused no remote id.
BfOwnWhileDistinct == BfRemotesDistinct => C39_DeliveredValueIsOwn

(***************************************************************************)
(* The specifications.                                                     *)
(***************************************************************************)
RateUnused ==
    /\ rate = 1
    /\ count = 0
    /\ epoch = 0
    /\ rstats = <<>>
    /\ rpc = "idle"
    /\ now = 0
    /\ lastReturn = -1
    /\ minGap = -1
    /\ window = [k \in Windows |-> 0]
    /\ backToBack = TRUE
    /\ binding = FALSE
    /\ underflowed = FALSE

EarlyIdle ==
    TrkIdle /\ WsIdle /\ RateIdle /\ EngIdle /\ CodecIdle /\ MainIdle /\ MergeIdle /\ TransferIdle

LateIdle == SdIdle /\ RqIdle /\ HpIdle /\ WpIdle /\ BhIdle /\ RsIdle /\ UrlIdle /\ OdIdle /\ BfIdle

InitTracker == TrkInit /\ WsIdle /\ RateIdle /\ EngIdle /\ CodecIdle /\ MainIdle /\ MergeIdle /\ TransferIdle /\ LateIdle

InitWs == WsInit /\ TrkIdle /\ RateIdle /\ EngIdle /\ CodecIdle /\ MainIdle /\ MergeIdle /\ TransferIdle /\ LateIdle

InitRate == RateInit /\ TrkIdle /\ WsIdle /\ EngIdle /\ CodecIdle /\ MainIdle /\ MergeIdle /\ TransferIdle /\ LateIdle

Init == EngInit /\ RateUnused /\ TrkIdle /\ WsIdle /\ CodecIdle /\ MainIdle /\ MergeIdle /\ TransferIdle /\ LateIdle

Next == EngNext

InitCodec == CodecInit /\ TrkIdle /\ WsIdle /\ RateIdle /\ EngIdle /\ MainIdle /\ MergeIdle /\ TransferIdle /\ LateIdle

SpecCodec == InitCodec /\ [][CodecNext]_vars

InitMain == MainInit /\ TrkIdle /\ WsIdle /\ RateIdle /\ EngIdle /\ CodecIdle /\ MergeIdle /\ TransferIdle /\ LateIdle

SpecMain == InitMain /\ [][MainNext]_vars

InitMerge == MergeInit /\ TrkIdle /\ WsIdle /\ RateIdle /\ EngIdle /\ CodecIdle /\ MainIdle /\ TransferIdle /\ LateIdle

SpecMerge == InitMerge /\ [][MergeNext]_vars

InitTransfer ==
    TransferInit /\ TrkIdle /\ WsIdle /\ RateIdle /\ EngIdle /\ CodecIdle /\ MainIdle /\ MergeIdle /\ LateIdle

SpecTransfer == InitTransfer /\ [][TransferNext]_vars

SpecTracker == InitTracker /\ [][TrkNext]_vars

SpecWs == InitWs /\ [][WsNext]_vars

SpecRate == InitRate /\ [][RateNext]_vars

Spec == Init /\ [][Next]_vars

InitShutdown == SdInit /\ EarlyIdle /\ RqIdle /\ HpIdle /\ WpIdle /\ BhIdle /\ RsIdle /\ UrlIdle /\ OdIdle /\ BfIdle

SpecShutdown == InitShutdown /\ [][SdNext]_vars /\ SdFairness

InitRequests == RqInit /\ EarlyIdle /\ SdIdle /\ HpIdle /\ WpIdle /\ BhIdle /\ RsIdle /\ UrlIdle /\ OdIdle /\ BfIdle

SpecRequests == InitRequests /\ [][RqNext]_vars

InitHttp == HpInit /\ EarlyIdle /\ SdIdle /\ RqIdle /\ WpIdle /\ BhIdle /\ RsIdle /\ UrlIdle /\ OdIdle /\ BfIdle

SpecHttp == InitHttp /\ [][HpNext]_vars

InitWsPool == WpInit /\ EarlyIdle /\ SdIdle /\ RqIdle /\ HpIdle /\ BhIdle /\ RsIdle /\ UrlIdle /\ OdIdle /\ BfIdle

SpecWsPool == InitWsPool /\ [][WpNext]_vars

InitBlockhash == BhInit /\ EarlyIdle /\ SdIdle /\ RqIdle /\ HpIdle /\ WpIdle /\ RsIdle /\ UrlIdle /\ OdIdle /\ BfIdle

SpecBlockhash == InitBlockhash /\ [][BhNext]_vars

InitReservoir == RsInit /\ EarlyIdle /\ SdIdle /\ RqIdle /\ HpIdle /\ WpIdle /\ BhIdle /\ UrlIdle /\ OdIdle /\ BfIdle

SpecReservoir == InitReservoir /\ [][RsNext]_vars

InitUrl == UrlInit /\ EarlyIdle /\ SdIdle /\ RqIdle /\ HpIdle /\ WpIdle /\ BhIdle /\ RsIdle /\ OdIdle /\ BfIdle

SpecUrl == InitUrl /\ [][UrlNext]_vars

InitOrder == OdInit /\ EarlyIdle /\ SdIdle /\ RqIdle /\ HpIdle /\ WpIdle /\ BhIdle /\ RsIdle /\ UrlIdle /\ BfIdle

SpecOrder == InitOrder /\ [][OdNext]_vars

InitBuffer == BfInit /\ EarlyIdle /\ SdIdle /\ RqIdle /\ HpIdle /\ WpIdle /\ BhIdle /\ RsIdle /\ UrlIdle /\ OdIdle

SpecBuffer == InitBuffer /\ [][BfNext]_vars
====
